---------------------------- MODULE Spec2Model ----------------------------
(***************************************************************************)
(* Reset orchestration engine of the 88code credit-reset extension:        *)
(*   - TokenBucket            (src/src/core/services/APIClient.ts)         *)
(*   - ResetService           (src/unnamed/part_000)                       *)
(*   - Scheduler              (src/unnamed/part_001)                       *)
(*   - EXECUTE_RESET command  (src/src/background/service-worker.ts)       *)
(*                                                                         *)
(* Time is in milliseconds, as Date.now() gives it.  Token counts are      *)
(* kept in units of 1/TokenScale token, so that the proportional refill    *)
(* (timePassed / refillInterval) * refillRate is exact for every whole     *)
(* number of milliseconds.                                                 *)
(***************************************************************************)
EXTENDS Integers, Sequences, FiniteSets, TLC

VARIABLES
    now,            \* Date.now()
    tokens,         \* TokenBucket.tokens, in 1/TokenScale token
    lastRefill,     \* TokenBucket.lastRefill
    bucketOp,       \* the last TokenBucket call and what it returned
    fin,            \* arguments of one run of the eligibility filter callback
    fout,           \* what the callback decided for them ("pending" before)
    phase,          \* where one executeReset call stands
    req,            \* its manual and resetType arguments
    fetched,        \* how many fetched subscriptions the filter has visited
    monthlySubscriptions,   \* the subscriptions the filter kept
    result,         \* its ResetResult
    resetResults,   \* the settled resetSingleSubscription promises, in order
    resetCalls,     \* the subscriptions resetSingleSubscription was called for
    hostTz,         \* offset of the host's local time from UTC, in minutes
    config,         \* the stored ResetScheduleConfig
    accounts,       \* the stored accounts
    execState,      \* the stored execution state of the day
    pc,             \* "idle", or where the alarm or command being handled stands
    run,            \* the locals of the alarm or command being handled
    ranLog,         \* per reset type, the last day on which a firing ran the
                    \* resets and the number of firings that did so on that day
    api,            \* one resetSingleSubscription call through APIClient.request
    inflight,       \* the requests issued together on the client
    initialized,    \* Scheduler.initialized
    alarms,         \* the chrome.alarms that exist
    lastStatus      \* the data of the last GET_STATUS response

bucketVars == <<tokens, lastRefill, bucketOp>>
filterVars == <<fin, fout>>
resetVars == <<phase, req, fetched, monthlySubscriptions, result, resetResults,
               resetCalls>>
schedVars == <<hostTz, config, accounts, execState, pc, run, ranLog>>
apiVars == <<api, inflight>>
alarmVars == <<initialized, alarms>>
statusVars == <<lastStatus>>
vars == <<now, tokens, lastRefill, bucketOp, fin, fout, phase, req, fetched,
          monthlySubscriptions, result, resetResults, resetCalls, hostTz,
          config, accounts, execState, pc, run, ranLog, api, inflight, initialized,
          alarms, lastStatus>>

\* What each component leaves alone.
notBucket == <<filterVars, resetVars, schedVars, apiVars, alarmVars, statusVars>>
notFilter == <<bucketVars, resetVars, schedVars, apiVars, alarmVars, statusVars>>
notReset == <<bucketVars, filterVars, schedVars, apiVars, alarmVars, statusVars>>
notSched == <<bucketVars, filterVars, resetVars, apiVars, alarmVars, statusVars>>

-----------------------------------------------------------------------------
(* RATE_LIMIT_CONFIG *)

BUCKET_CAPACITY == 30
REFILL_RATE == 20
REFILL_INTERVAL == 60000

\* One token is REFILL_INTERVAL / REFILL_RATE milliseconds of refill.
TokenScale == REFILL_INTERVAL \div REFILL_RATE

\* The clock of the token-bucket specification advances in steps of half a
\* second, up to MaxBucketTicks steps after the bucket was constructed.
BucketTickMs == REFILL_INTERVAL \div 120
MaxBucketTicks == 8

-----------------------------------------------------------------------------
(* TokenBucket *)

Min(a, b) == IF a <= b THEN a ELSE b

\* refill(): tokensToAdd = (timePassed / refillInterval) * refillRate; in
\* scaled units that is timePassed itself.
RefillTokens(tok, last, t) ==
    LET timePassed == t - last
        tokensToAdd == timePassed
    IN  IF tokensToAdd > 0
        THEN Min(BUCKET_CAPACITY * TokenScale, tok + tokensToAdd)
        ELSE tok

RefillLast(last, t) == IF t - last > 0 THEN t ELSE last

\* consume(): the guard of the decrement, on the refilled token count.
CanConsume(tok) == tok > 0

\* Math.floor(this.tokens)
FloorTokens(tok) == tok \div TokenScale

NoBucketOp == [op |-> "none", ret |-> 0, avail |-> BUCKET_CAPACITY * TokenScale]

Consume ==
    LET avail == RefillTokens(tokens, lastRefill, now)
    IN  /\ lastRefill' = RefillLast(lastRefill, now)
        /\ IF CanConsume(avail)
           THEN /\ tokens' = avail - TokenScale
                /\ bucketOp' = [op |-> "consume", ret |-> 1, avail |-> avail]
           ELSE /\ tokens' = avail
                /\ bucketOp' = [op |-> "consume", ret |-> 0, avail |-> avail]
        /\ UNCHANGED <<now, notBucket>>

GetAvailableTokens ==
    LET avail == RefillTokens(tokens, lastRefill, now)
    IN  /\ lastRefill' = RefillLast(lastRefill, now)
        /\ tokens' = avail
        /\ bucketOp' = [op |-> "getAvailableTokens", ret |-> FloorTokens(avail),
                        avail |-> avail]
        /\ UNCHANGED <<now, notBucket>>

\* Time passes between two calls.
BucketTick ==
    /\ now + BucketTickMs <= MaxBucketTicks * BucketTickMs
    /\ \E k \in 1..MaxBucketTicks :
          /\ now + k * BucketTickMs <= MaxBucketTicks * BucketTickMs
          /\ now' = now + k * BucketTickMs
    /\ UNCHANGED <<bucketVars, notBucket>>

-----------------------------------------------------------------------------
(* APIClient.request, resetCredits and ResetService.resetSingleSubscription: *)
(* one reset call, from the rate-limit check to the subscription outcome.   *)

NoResponse == [kind |-> "none"]

NoApiCall ==
    [phase |-> "idle", fetches |-> 0, response |-> NoResponse,
     outcome |-> [kind |-> "none", code |-> ""], entry |-> [status |-> "none"]]

\* No requests issued together: avail is the refilled token count when they
\* were issued, pending those that have not reached the rate-limit check.
NoFanOut ==
    [avail |-> 0, issued |-> 0, pending |-> 0, admitted |-> 0, denied |-> 0]

ClientIdle == api = NoApiCall /\ inflight = NoFanOut

\* The fields of a parsed JSON object that the reset call can read: ok
\* (true, false or absent), code (0, another number or absent), msg (a
\* text or absent), data (with the new credits, or absent) and the success
\* field nested in data (true, false or absent; absent where data is).  The
\* object with all of them absent is {}.
JsonObjects ==
    { j \in [ok : {"true", "false", "absent"}, code : {"0", "other", "absent"},
             msg : {"text", "absent"}, data : {"credits", "absent"},
             nested : {"true", "false", "absent"}] :
        j.data = "absent" => j.nested = "absent" }

NoJson ==
    [ok |-> "absent", code |-> "absent", msg |-> "absent", data |-> "absent",
     nested |-> "absent"]

Response(kind, status, contentLength, body, json) ==
    [kind |-> kind, status |-> status, contentLength |-> contentLength,
     body |-> body, json |-> json]

\* What fetchWithTimeout can come to: a network error, a timeout, or an HTTP
\* response: an error status, 204, content-length 0, or 200 with an empty,
\* blank, non-JSON or JSON body.
HttpResponses ==
    { Response(k, 0, "absent", "EMPTY", NoJson) : k \in {"NETWORK_ERROR", "TIMEOUT"} }
        \cup { Response("HTTP", 500, "absent", "JSON", NoJson),
               Response("HTTP", 204, "absent", "EMPTY", NoJson),
               Response("HTTP", 200, "0", "EMPTY", NoJson) }
        \cup { Response("HTTP", 200, "absent", b, NoJson) :
                 b \in {"EMPTY", "BLANK", "NOT_JSON"} }
        \cup { Response("HTTP", 200, "absent", "JSON", j) : j \in JsonObjects }

\* { success: true, message: '操作成功' }
DefaultSuccess ==
    [success |-> "true", ok |-> "absent", code |-> "absent", msg |-> "absent",
     data |-> "absent", nested |-> "absent"]

Parsed(json) ==
    [success |-> "absent", ok |-> json.ok, code |-> json.code, msg |-> json.msg,
     data |-> json.data, nested |-> json.nested]

Raised(code) == [kind |-> "raised", code |-> code, value |-> DefaultSuccess]
Returned(value) == [kind |-> "returned", code |-> "", value |-> value]

\* APIClient.request, from the settled fetch on: what it returns or throws.
request(response) ==
    IF response.kind = "NETWORK_ERROR" THEN Raised("NETWORK_ERROR")
    ELSE IF response.kind = "TIMEOUT" THEN Raised("REQUEST_TIMEOUT")
    ELSE IF ~(response.status \in 200..299) THEN Raised("HTTP_ERROR")
    ELSE IF response.status = 204 \/ response.contentLength = "0"
         THEN Returned(DefaultSuccess)
    ELSE IF response.body \in {"EMPTY", "BLANK"} THEN Returned(DefaultSuccess)
    ELSE IF response.body = "NOT_JSON" THEN Raised("JSON_PARSE_ERROR")
    ELSE IF response.json = NoJson THEN Returned(DefaultSuccess)
    ELSE Returned(Parsed(response.json))

\* (success read from the success field nested in data)
resetCreditsByNestedSuccess(value) ==
    LET apiSuccess == value.nested = "true"
    IN  [success |-> apiSuccess,
         message |-> IF value.msg = "text" THEN "ENVELOPE_MSG"
                     ELSE IF apiSuccess THEN "RESET_OK" ELSE "RESET_FAILED",
         data |-> IF apiSuccess THEN value.data ELSE "absent"]

\* APIClient.resetCredits, on what request returned.
resetCredits(value) ==
    LET apiSuccess == value.ok = "true" \/ value.code = "0"
    IN  [success |-> apiSuccess,
         message |-> IF value.msg = "text" THEN "ENVELOPE_MSG"
                     ELSE IF apiSuccess THEN "RESET_OK" ELSE "RESET_FAILED",
         data |-> IF apiSuccess THEN value.data ELSE "absent"]

\* ResetService.resetSingleSubscription, on what request came to.
resetSingleSubscription(outcome) ==
    IF outcome.kind = "raised"
    THEN [status |-> "FAILED", message |-> outcome.code, usageAfter |-> "absent"]
    ELSE LET r == resetCredits(outcome.value)
         IN  IF ~r.success
             THEN [status |-> "FAILED", message |-> r.message,
                   usageAfter |-> "absent"]
             ELSE IF r.data = "credits"
             THEN [status |-> "SUCCESS", message |-> "RESET_WITH_CREDITS",
                   usageAfter |-> "newCredits"]
             ELSE [status |-> "SUCCESS", message |-> "RESET_NO_DETAIL",
                   usageAfter |-> "usageBefore"]

\* (the denied request going on to the network)
RequestDeniedFetches(call) == [call EXCEPT !.phase = "fetching", !.fetches = 1]

\* The rate limiter has denied the request: RATE_LIMIT_EXCEEDED is thrown.
RequestDenied(call) ==
    [call EXCEPT !.phase = "done",
                 !.outcome = Raised("RATE_LIMIT_EXCEEDED"),
                 !.entry = resetSingleSubscription(Raised("RATE_LIMIT_EXCEEDED"))]

\* resetSingleSubscription calls resetCredits, which calls request: the rate
\* limiter is asked, and with a token the fetch is issued.
RequestStarts ==
    /\ api.phase = "idle"
    /\ LET avail == RefillTokens(tokens, lastRefill, now)
       IN  /\ lastRefill' = RefillLast(lastRefill, now)
           /\ IF CanConsume(avail)
              THEN /\ tokens' = avail - TokenScale
                   /\ bucketOp' = [op |-> "consume", ret |-> 1, avail |-> avail]
                   /\ api' = [NoApiCall EXCEPT !.phase = "fetching", !.fetches = 1]
              ELSE /\ tokens' = avail
                   /\ bucketOp' = [op |-> "consume", ret |-> 0, avail |-> avail]
                   /\ api' = RequestDenied(NoApiCall)
    /\ UNCHANGED <<now, inflight, filterVars, resetVars, schedVars, alarmVars,
                   statusVars>>

\* The fetch settles; request, resetCredits and resetSingleSubscription
\* return or throw in turn.
FetchSettles ==
    /\ api.phase = "fetching"
    /\ \E response \in HttpResponses :
          api' = [api EXCEPT !.phase = "done",
                             !.response = response,
                             !.outcome = request(response),
                             !.entry = resetSingleSubscription(request(response))]
    /\ UNCHANGED <<now, inflight, bucketVars, filterVars, resetVars, schedVars,
                   alarmVars, statusVars>>

\* resetSingleSubscription has returned its entry.
CallReturns ==
    /\ api.phase = "done"
    /\ api' = NoApiCall
    /\ UNCHANGED <<now, inflight, bucketVars, filterVars, resetVars, schedVars,
                   alarmVars, statusVars>>

AlarmsIdle == initialized = FALSE /\ alarms = {}

\* No GET_STATUS answered yet.  A response carries its timestamp; nextTimes
\* is what getNextScheduledTime returned for it, primary whether a primary
\* subscription was found.
NoStatus ==
    [asked |-> FALSE, timestamp |-> 0,
     nextTimes |-> [firstReset |-> 0, secondReset |-> 0],
     primary |-> FALSE, chosen |-> <<>>, resetTimes |-> 0,
     nextScheduledReset |-> 0, nextResetType |-> "null",
     isOnCooldown |-> FALSE, nextAvailableTime |-> 0]

StatusIdle == lastStatus = NoStatus

-----------------------------------------------------------------------------
(* Subscriptions, as getSubscriptions returns them.  lastCreditReset is the *)
(* time of the last reset in milliseconds, 0 for an absent (null) one.      *)

DAY_MS == 24 * 60 * 60 * 1000
HOUR_MS == 60 * 60 * 1000
MINUTE_MS == 60 * 1000

PlanTypes == {"MONTHLY", "PAY_PER_USE"}

\* The remote grants two resets a day ("0/2").
DailyResets == 2

\* A reference instant: the last reset of the subscriptions that have one.
T0 == 3 * DAY_MS

\* The (manual, resetType) pairs executeReset is called with.
CallShapes ==
    { [manual |-> FALSE, resetType |-> "FIRST"],
      [manual |-> FALSE, resetType |-> "SECOND"],
      [manual |-> TRUE, resetType |-> "MANUAL"],
      [manual |-> FALSE, resetType |-> "MANUAL"] }

SubAttrs(lastResets) ==
    [planType : PlanTypes, free : BOOLEAN, isActive : BOOLEAN,
     resetTimes : 0..DailyResets, lastCreditReset : lastResets]

WithId(attrs, i) ==
    [id |-> i, planType |-> attrs.planType, free |-> attrs.free,
     isActive |-> attrs.isActive, resetTimes |-> attrs.resetTimes,
     lastCreditReset |-> attrs.lastCreditReset]

\* isPaygoSubscription, isMonthlySubscription, isActiveSubscription (@/types)
isPaygoSubscription(sub) == sub.planType = "PAY_PER_USE"
isMonthlySubscription(sub) == sub.planType = "MONTHLY"
isActiveSubscription(sub) == sub.isActive

-----------------------------------------------------------------------------
(* ResetService.executeReset: the callback of subscriptions.filter *)

cooldownPeriod == 5 * 60 * 60 * 1000

\* subscriptionName.toUpperCase().includes('FREE')
IsFreeTier(sub) == sub.free

\* (the check written with <=)
InCooldownInclusive(sub, manual, t) ==
    /\ manual
    /\ sub.lastCreditReset # 0
    /\ t - sub.lastCreditReset <= cooldownPeriod

\* The cooldown check of a manual reset.
InCooldown(sub, manual, t) ==
    /\ manual
    /\ sub.lastCreditReset # 0
    /\ t - sub.lastCreditReset < cooldownPeriod

\* (the checks with FIRST asking for one remaining reset only)
CountExclusionFirstOne(sub, resetType) ==
    IF resetType = "FIRST" /\ sub.resetTimes < 1 THEN "COUNT_FIRST"
    ELSE IF resetType = "SECOND" /\ sub.resetTimes < 1 THEN "COUNT_SECOND"
    ELSE IF resetType = "MANUAL" /\ sub.resetTimes = 0 THEN "COUNT_MANUAL"
    ELSE ""

\* The three remaining-count checks: the tag of the one that excludes the
\* subscription, "" when none does.
CountExclusion(sub, resetType) ==
    IF resetType = "FIRST" /\ sub.resetTimes < 2 THEN "COUNT_FIRST"
    ELSE IF resetType = "SECOND" /\ sub.resetTimes < 1 THEN "COUNT_SECOND"
    ELSE IF resetType = "MANUAL" /\ sub.resetTimes = 0 THEN "COUNT_MANUAL"
    ELSE ""

\* (the callback without its final MONTHLY-and-active check)
ClassifyPlanUnchecked(sub, manual, resetType, t) ==
    IF IsFreeTier(sub) THEN "FREE"
    ELSE IF isPaygoSubscription(sub) THEN "PAYGO"
    ELSE IF InCooldown(sub, manual, t) THEN "COOLDOWN"
    ELSE IF CountExclusion(sub, resetType) # "" THEN CountExclusion(sub, resetType)
    ELSE "ELIGIBLE"

\* The branch of the callback a subscription takes.
Classify(sub, manual, resetType, t) ==
    IF IsFreeTier(sub) THEN "FREE"
    ELSE IF isPaygoSubscription(sub) THEN "PAYGO"
    ELSE IF InCooldown(sub, manual, t) THEN "COOLDOWN"
    ELSE IF CountExclusion(sub, resetType) # "" THEN CountExclusion(sub, resetType)
    ELSE IF isMonthlySubscription(sub) /\ isActiveSubscription(sub) THEN "ELIGIBLE"
    ELSE "OTHER"

\* (the callback with the pay-per-use branch returning true)
FilterKeepsPaygo(sub, manual, resetType, t) ==
    Classify(sub, manual, resetType, t) \in {"ELIGIBLE", "PAYGO"}

\* The callback's return value.
FilterKeeps(sub, manual, resetType, t) ==
    Classify(sub, manual, resetType, t) = "ELIGIBLE"

\* The branches that push a SKIPPED entry to result.subscriptions (the FREE
\* branch only logs).
RecordsSkip(tag) == tag \in {"PAYGO", "COOLDOWN", "COUNT_FIRST", "COUNT_SECOND",
                             "COUNT_MANUAL", "OTHER"}

-----------------------------------------------------------------------------
(* ResetService.executeReset: the result and its aggregation *)

NewResult ==
    [status |-> "SUCCESS", subscriptions |-> <<>>, successCount |-> 0,
     failedCount |-> 0, skippedCount |-> 0, summary |-> "", threw |-> FALSE]

\* The SKIPPED entry a branch of the callback pushes; its message is named
\* by the branch.
SkipEntry(sub, tag) ==
    [subscriptionId |-> sub.id, plan |-> sub.planType, status |-> "SKIPPED",
     message |-> tag]

\* One run of the callback: the entry it pushes and whether it keeps the
\* subscription.
FilterOne(res, monthly, sub, manual, resetType, t) ==
    LET tag == Classify(sub, manual, resetType, t)
    IN  [result |->
            IF RecordsSkip(tag)
            THEN [res EXCEPT !.skippedCount = @ + 1,
                             !.subscriptions = Append(@, SkipEntry(sub, tag))]
            ELSE res,
         monthly |->
            IF FilterKeeps(sub, manual, resetType, t)
            THEN Append(monthly, sub)
            ELSE monthly]

\* message.includes(needle) for the three needles of the skip analysis:
\*   "WAIT"        the text of the cooldown message only
\*   "PAYGO"       the text of the pay-per-use message only
\*   "RESET_COUNT" the text of the MANUAL count message only; the FIRST and
\*                 SECOND count messages are worded differently
MessageIncludes(tag, needle) ==
    \/ needle = "WAIT" /\ tag = "COOLDOWN"
    \/ needle = "PAYGO" /\ tag = "PAYGO"
    \/ needle = "RESET_COUNT" /\ tag = "COUNT_MANUAL"

HasMessage(subscriptions, needle) ==
    \E i \in DOMAIN subscriptions : MessageIncludes(subscriptions[i].message, needle)

\* The summary of a run in which the filter kept nothing.
SkipSummary(subscriptions) ==
    IF HasMessage(subscriptions, "WAIT") THEN "COOLDOWN"
    ELSE IF HasMessage(subscriptions, "PAYGO") THEN "ALL_PAYGO"
    ELSE IF HasMessage(subscriptions, "RESET_COUNT") THEN "COUNT_EXHAUSTED"
    ELSE "NO_ELIGIBLE"

\* How a resetSingleSubscription promise settles: fulfilled with SUCCESS
\* ("OK"), fulfilled with FAILED after a refusal ("REFUSED") or a caught
\* exception ("THROWN"), or rejected ("REJECTED").
ResetResponses == {"OK", "REFUSED", "THROWN", "REJECTED"}

SettledEntry(sub, response) ==
    [subscriptionId |-> sub.id,
     plan |-> IF response = "REJECTED" THEN sub.planType ELSE "MONTHLY",
     status |-> IF response = "OK" THEN "SUCCESS" ELSE "FAILED",
     message |-> response]

\* (the loop counting every settled call as a failure)
AggregateOneAllFailed(res, sub, response) ==
    [res EXCEPT !.subscriptions = Append(@, SettledEntry(sub, "THROWN")),
                !.failedCount = @ + 1]

\* One turn of the aggregation loop.
AggregateOne(res, sub, response) ==
    [res EXCEPT !.subscriptions = Append(@, SettledEntry(sub, response)),
                !.successCount = IF response = "OK" THEN @ + 1 ELSE @,
                !.failedCount = IF response = "OK" THEN @ ELSE @ + 1]

\* (the loop giving up at the first call that did not succeed)
RECURSIVE AggregateFromAborting(_, _, _, _)
AggregateFromAborting(res, monthly, responses, i) ==
    IF i > Len(monthly) THEN res
    ELSE IF responses[i] # "OK" THEN AggregateOne(res, monthly[i], responses[i])
    ELSE AggregateFromAborting(AggregateOne(res, monthly[i], responses[i]),
                               monthly, responses, i + 1)

RECURSIVE AggregateFrom(_, _, _, _)
AggregateFrom(res, monthly, responses, i) ==
    IF i > Len(monthly) THEN res
    ELSE AggregateFrom(AggregateOne(res, monthly[i], responses[i]),
                       monthly, responses, i + 1)

\* (the status with the PARTIAL test asking for no success)
OverallStatusSwapped(successCount, failedCount) ==
    IF failedCount = 0 THEN "SUCCESS"
    ELSE IF successCount = 0 THEN "PARTIAL"
    ELSE "FAILED"

\* The overall status, from the counts.
OverallStatus(successCount, failedCount) ==
    IF failedCount = 0 THEN "SUCCESS"
    ELSE IF successCount > 0 THEN "PARTIAL"
    ELSE "FAILED"

OverallSummary(successCount, failedCount) ==
    IF failedCount = 0 THEN "RESET_OK"
    ELSE IF successCount > 0 THEN "RESET_PARTIAL"
    ELSE "RESET_ALL_FAILED"

WithStatus(res) ==
    [res EXCEPT !.status = OverallStatus(res.successCount, res.failedCount),
                !.summary = OverallSummary(res.successCount, res.failedCount)]

\* (the catch block recording the message only)
CaughtKeepsStatus(res) == [res EXCEPT !.summary = "ERROR", !.threw = TRUE]

\* The catch block of executeReset.
Caught(res) == [res EXCEPT !.status = "FAILED", !.summary = "ERROR", !.threw = TRUE]

-----------------------------------------------------------------------------
(* One executeReset call, step by step.  The fetched list is visited one    *)
(* subscription at a time; each subscription is any one the remote can      *)
(* return, and the list has at most MaxSubs of them.                        *)

MaxSubs == 3

\* The instants of a call: within the cooldown of a reset at T0, and past it.
ResetInstants == { T0 + 4 * HOUR_MS + 59 * MINUTE_MS, T0 + cooldownPeriod }

IdleReq == [manual |-> FALSE, resetType |-> "FIRST"]

ResetIdle ==
    /\ phase = "idle"
    /\ req = IdleReq
    /\ fetched = 0
    /\ monthlySubscriptions = <<>>
    /\ result = NewResult
    /\ resetResults = <<>>
    /\ resetCalls = <<>>

\* executeReset(account, manual, resetType) is called.
StartReset ==
    /\ phase = "idle"
    /\ req' \in CallShapes
    /\ now' \in ResetInstants
    /\ phase' = "listing"
    /\ fetched' = 0
    /\ monthlySubscriptions' = <<>>
    /\ result' = NewResult
    /\ resetResults' = <<>>
    /\ resetCalls' = <<>>
    /\ UNCHANGED notReset

\* getSubscriptions throws: the catch block.
ListingFails ==
    /\ phase = "listing"
    /\ result' = Caught(result)
    /\ phase' = "done"
    /\ UNCHANGED <<now, req, fetched, monthlySubscriptions, resetResults,
                   resetCalls, notReset>>

\* getSubscriptions returns an empty list.
ListingEmpty ==
    /\ phase = "listing"
    /\ result' = [result EXCEPT !.status = "SKIPPED", !.summary = "NO_SUBSCRIPTIONS"]
    /\ phase' = "done"
    /\ UNCHANGED <<now, req, fetched, monthlySubscriptions, resetResults,
                   resetCalls, notReset>>

\* The filter callback runs on the next fetched subscription, one of at
\* most maxSubs with attributes from attrs.
FilterStepFrom(attrs, maxSubs) ==
    /\ phase \in {"listing", "filter"}
    /\ fetched < maxSubs
    /\ \E a \in attrs :
          LET sub == WithId(a, fetched + 1)
              r == FilterOne(result, monthlySubscriptions, sub, req.manual,
                             req.resetType, now)
          IN  /\ result' = r.result
              /\ monthlySubscriptions' = r.monthly
    /\ fetched' = fetched + 1
    /\ phase' = "filter"
    /\ UNCHANGED <<now, req, resetResults, resetCalls, notReset>>

FilterStep == FilterStepFrom(SubAttrs({0, T0}), MaxSubs)

\* The filter is through.  With nothing kept the call returns SKIPPED; else
\* a resetSingleSubscription call is started for every kept subscription.
FilterDone ==
    /\ phase = "filter"
    /\ IF monthlySubscriptions = <<>>
       THEN /\ result' = [result EXCEPT !.status = "SKIPPED",
                                        !.summary = SkipSummary(result.subscriptions)]
            /\ phase' = "done"
            /\ UNCHANGED resetCalls
       ELSE /\ resetCalls' = monthlySubscriptions
            /\ phase' = "reset"
            /\ UNCHANGED result
    /\ UNCHANGED <<now, req, fetched, monthlySubscriptions, resetResults, notReset>>

\* One of the started reset calls settles.
ResetSettles ==
    /\ phase = "reset"
    /\ Len(resetResults) < Len(monthlySubscriptions)
    /\ \E response \in ResetResponses : resetResults' = Append(resetResults, response)
    /\ UNCHANGED <<now, phase, req, fetched, monthlySubscriptions, result,
                   resetCalls, notReset>>

\* (the status set without waiting for the reset calls to settle)
AggregateWithoutWaiting ==
    /\ phase = "reset"
    /\ result' = WithStatus(result)
    /\ phase' = "done"
    /\ UNCHANGED <<now, req, fetched, monthlySubscriptions, resetResults,
                   resetCalls, notReset>>

\* Promise.allSettled resolves: the results are summed up and the status set.
Aggregate ==
    /\ phase = "reset"
    /\ Len(resetResults) = Len(monthlySubscriptions)
    /\ result' = WithStatus(AggregateFrom(result, monthlySubscriptions, resetResults, 1))
    /\ phase' = "done"
    /\ UNCHANGED <<now, req, fetched, monthlySubscriptions, resetResults,
                   resetCalls, notReset>>

\* The call has returned its result.
ResetReturns ==
    /\ phase = "done"
    /\ phase' = "idle"
    /\ req' = IdleReq
    /\ fetched' = 0
    /\ monthlySubscriptions' = <<>>
    /\ result' = NewResult
    /\ resetResults' = <<>>
    /\ resetCalls' = <<>>
    /\ UNCHANGED <<now, notReset>>

-----------------------------------------------------------------------------
(* ResetService.executeReset as one function of what the remote answers:   *)
(* the listing (thrown, or a list) and how each reset call settles.        *)

RECURSIVE FilterFrom(_, _, _, _, _, _, _)
FilterFrom(res, monthly, subs, manual, resetType, t, i) ==
    IF i > Len(subs) THEN [result |-> res, monthly |-> monthly]
    ELSE LET r == FilterOne(res, monthly, subs[i], manual, resetType, t)
         IN  FilterFrom(r.result, r.monthly, subs, manual, resetType, t, i + 1)

ExecuteReset(listing, manual, resetType, t, responses) ==
    IF ~listing.ok
    THEN [result |-> Caught(NewResult), calls |-> <<>>]
    ELSE IF listing.subs = <<>>
    THEN [result |-> [NewResult EXCEPT !.status = "SKIPPED",
                                       !.summary = "NO_SUBSCRIPTIONS"],
          calls |-> <<>>]
    ELSE LET f == FilterFrom(NewResult, <<>>, listing.subs, manual, resetType, t, 1)
         IN  IF f.monthly = <<>>
             THEN [result |-> [f.result EXCEPT
                                  !.status = "SKIPPED",
                                  !.summary = SkipSummary(f.result.subscriptions)],
                   calls |-> <<>>]
             ELSE [result |-> WithStatus(AggregateFrom(f.result, f.monthly,
                                                       responses, 1)),
                   calls |-> f.monthly]

-----------------------------------------------------------------------------
(* Storage and helpers the scheduler uses (StorageService, @utils/helpers) *)

\* getTodayDateString(timezone): the calendar day of t in the timezone,
\* as a day number.
getTodayDateString(t, timezone) == (t + timezone * MINUTE_MS) \div DAY_MS

\* The execution state before anything was marked.
NoExecution ==
    [lastExecutionDate |-> 0, firstResetToday |-> FALSE, secondResetToday |-> FALSE]

\* StorageService.markResetExecuted(isFirstReset): the stored state with the
\* flag of the reset type set for today, the flags of an earlier day dropped.
markResetExecuted(stored, isFirstReset, today) ==
    LET s == IF stored.lastExecutionDate # today
             THEN [lastExecutionDate |-> today, firstResetToday |-> FALSE,
                   secondResetToday |-> FALSE]
             ELSE stored
    IN  IF isFirstReset
        THEN [s EXCEPT !.firstResetToday = TRUE]
        ELSE [s EXCEPT !.secondResetToday = TRUE]

\* accounts.filter((acc) => acc.enabled)
RECURSIVE EnabledFrom(_, _)
EnabledFrom(accs, i) ==
    IF i > Len(accs) THEN <<>>
    ELSE IF accs[i].enabled THEN <<accs[i]>> \o EnabledFrom(accs, i + 1)
    ELSE EnabledFrom(accs, i + 1)

EnabledAccounts(accs) == EnabledFrom(accs, 1)

-----------------------------------------------------------------------------
(* Scheduler *)

TIME_WINDOW_MINUTES == 3

Abs(x) == IF x < 0 THEN 0 - x ELSE x

\* isWithinTimeWindow(scheduledTime, windowMinutes), at instant t on a host
\* whose local time is tz minutes ahead of UTC.
isWithinTimeWindow(scheduledTime, windowMinutes, t, tz) ==
    LET local == t + tz * MINUTE_MS
        target == (local \div DAY_MS) * DAY_MS
                    + (scheduledTime.h * 60 + scheduledTime.m) * MINUTE_MS
        diffMs == Abs(local - target)
    IN  diffMs <= windowMinutes * MINUTE_MS

\* (the date taken over, the flags of the earlier day kept)
DayStateKeepsFlags(stored, today) ==
    [stored EXCEPT !.lastExecutionDate = today]

\* The state executeScheduledReset works on: the stored one, with the flags
\* dropped when the date has changed.
DayState(stored, today) ==
    IF stored.lastExecutionDate # today
    THEN [lastExecutionDate |-> today, firstResetToday |-> FALSE,
          secondResetToday |-> FALSE]
    ELSE stored

\* (the checks reading each other's flag)
AlreadyExecutedSwapped(state, isFirstReset) ==
    \/ isFirstReset /\ state.secondResetToday
    \/ ~isFirstReset /\ state.firstResetToday

\* The two "already executed today" checks.
AlreadyExecuted(state, isFirstReset) ==
    \/ isFirstReset /\ state.firstResetToday
    \/ ~isFirstReset /\ state.secondResetToday

ResetTypeOf(isFirstReset) == IF isFirstReset THEN "FIRST" ELSE "SECOND"

NoRuns == [day |-> 0, runs |-> 0]

\* What the remote answered the account run that settled last: the listing,
\* and how the reset calls issued for it settled.
NoAnswer == [listing |-> [ok |-> FALSE, subs |-> <<>>], settled |-> <<>>]

Answered(listing, responses, calls) ==
    [listing |-> listing, settled |-> SubSeq(responses, 1, Len(calls))]

\* The MessageResponse of a command: ok is its success field, code its
\* error.code, success and message the fields of its data.
NoReply == [ok |-> FALSE, code |-> "", success |-> FALSE, message |-> ""]

createSuccessResponse(success, message) ==
    [ok |-> TRUE, code |-> "", success |-> success, message |-> message]

createErrorResponse(code) ==
    [ok |-> FALSE, code |-> code, success |-> FALSE, message |-> ""]

NoRun ==
    [cmd |-> "none", outcome |-> "none", today |-> 0, stored |-> NoExecution,
     state |-> NoExecution, manual |-> FALSE, resetType |-> "FIRST",
     invoked |-> <<>>, todo |-> <<>>, results |-> <<>>, calls |-> {},
     answered |-> NoAnswer, reply |-> NoReply]

\* What the scheduler reads of a ResetResult: its status and its summary.
Kept(accountId, res) ==
    [accountId |-> accountId, status |-> res.status, summary |-> res.summary]

\* The settled entry of an executeReset promise that rejected.
Rejected(accountId) ==
    [accountId |-> accountId, status |-> "REJECTED", summary |-> "EXCEPTION"]

\* The subscriptions resetCredits was called for in the account run that
\* settled last.
CallsOf(subs) == { subs[i] : i \in DOMAIN subs }

Ids(accs) == [i \in DOMAIN accs |-> accs[i].id]

\* handleAlarm for the first (isFirstReset) or second reset alarm:
\* executeScheduledReset up to the start of the account runs.
AlarmFires(isFirstReset) ==
    /\ pc = "idle"
    /\ LET cmd == IF isFirstReset THEN "alarmFirst" ELSE "alarmSecond"
           scheduledTime == IF isFirstReset THEN config.firstResetTime
                            ELSE config.secondResetTime
           today == getTodayDateString(now, config.timezone)
           state == DayState(execState, today)
           enabledAccounts == EnabledAccounts(accounts)
           base == [NoRun EXCEPT !.cmd = cmd, !.resetType = ResetTypeOf(isFirstReset)]
       IN  IF ~isWithinTimeWindow(scheduledTime, TIME_WINDOW_MINUTES, now, hostTz)
           THEN /\ run' = [base EXCEPT !.outcome = "outOfWindow"]
                /\ pc' = "done"
                /\ UNCHANGED ranLog
           ELSE IF AlreadyExecuted(state, isFirstReset)
           THEN /\ run' = [base EXCEPT !.outcome = "alreadyExecuted",
                                       !.today = today, !.stored = execState,
                                       !.state = state]
                /\ pc' = "done"
                /\ UNCHANGED ranLog
           ELSE IF enabledAccounts = <<>>
           THEN /\ run' = [base EXCEPT !.outcome = "noAccounts",
                                       !.today = today, !.stored = execState,
                                       !.state = state]
                /\ pc' = "done"
                /\ UNCHANGED ranLog
           ELSE /\ run' = [base EXCEPT !.outcome = "executed",
                                       !.today = today, !.stored = execState,
                                       !.state = state,
                                       !.invoked = Ids(enabledAccounts),
                                       !.todo = Ids(enabledAccounts)]
                /\ pc' = "running"
                /\ ranLog' = [ranLog EXCEPT ![ResetTypeOf(isFirstReset)] =
                                IF @.day = today
                                THEN [@ EXCEPT !.runs = @ + 1]
                                ELSE [day |-> today, runs |-> 1]]
    /\ UNCHANGED <<now, hostTz, config, accounts, execState, notSched>>

\* What the remote can answer one account in a scheduler run: the listing
\* thrown, or a list of up to MaxSchedSubs paid, active monthly
\* subscriptions, each either untouched today (both resets left, never
\* reset) or reset once an hour ago; every reset call accepted or thrown.
MaxSchedSubs == 1

SchedSubAttrs(t) ==
    { [planType |-> "MONTHLY", free |-> FALSE, isActive |-> TRUE,
       resetTimes |-> DailyResets, lastCreditReset |-> 0],
      [planType |-> "MONTHLY", free |-> FALSE, isActive |-> TRUE,
       resetTimes |-> DailyResets - 1, lastCreditReset |-> t - HOUR_MS] }

SchedSubLists(t) ==
    UNION { { [i \in 1..n |-> WithId(f[i], i)] : f \in [1..n -> SchedSubAttrs(t)] } :
            n \in 0..MaxSchedSubs }

SchedListings(t) ==
    { [ok |-> FALSE, subs |-> <<>>] }
        \cup { [ok |-> TRUE, subs |-> l] : l \in SchedSubLists(t) }

SchedResponses == [1..MaxSchedSubs -> {"OK", "THROWN"}]

\* The executeReset call of the next account of the run settles: fulfilled
\* with the result of what the remote answered, or rejected.
AccountRuns ==
    /\ pc = "running"
    /\ run.todo # <<>>
    /\ LET accountId == Head(run.todo)
       IN  \/ \E listing \in SchedListings(now), responses \in SchedResponses :
                LET r == ExecuteReset(listing, run.manual, run.resetType, now,
                                      responses)
                IN  run' = [run EXCEPT
                              !.todo = Tail(@),
                              !.results = Append(@, Kept(accountId, r.result)),
                              !.calls = CallsOf(r.calls),
                              !.answered = Answered(listing, responses, r.calls)]
           \/ run' = [run EXCEPT
                         !.todo = Tail(@),
                         !.results = Append(@, Rejected(accountId)),
                         !.calls = {},
                         !.answered = NoAnswer]
    /\ UNCHANGED <<now, hostTz, config, accounts, execState, pc, ranLog, notSched>>

\* (the day marked only when some account was reset)
FinishScheduledResetOnSuccess ==
    /\ pc = "running"
    /\ run.todo = <<>>
    /\ run.cmd \in {"alarmFirst", "alarmSecond"}
    /\ execState' =
          IF \E i \in DOMAIN run.results : run.results[i].status = "SUCCESS"
          THEN markResetExecuted(execState, run.cmd = "alarmFirst",
                                 getTodayDateString(now, config.timezone))
          ELSE execState
    /\ pc' = "done"
    /\ UNCHANGED <<now, hostTz, config, accounts, run, ranLog, notSched>>

\* executeScheduledReset after Promise.allSettled: the day is marked.
FinishScheduledReset ==
    /\ pc = "running"
    /\ run.todo = <<>>
    /\ run.cmd \in {"alarmFirst", "alarmSecond"}
    /\ execState' = markResetExecuted(execState, run.cmd = "alarmFirst",
                                      getTodayDateString(now, config.timezone))
    /\ pc' = "done"
    /\ UNCHANGED <<now, hostTz, config, accounts, run, ranLog, notSched>>

\* (the manual run refused once both resets of the day have run)
TriggerManualResetDeduped ==
    /\ pc = "idle"
    /\ LET enabledAccounts == EnabledAccounts(accounts)
           base == [NoRun EXCEPT !.cmd = "triggerManualReset", !.manual = TRUE,
                                 !.resetType = "MANUAL"]
       IN  IF enabledAccounts = <<>>
              \/ (execState.firstResetToday /\ execState.secondResetToday)
           THEN /\ run' = [base EXCEPT
                             !.outcome = "error",
                             !.reply = createErrorResponse("MESSAGE_PROCESSING_ERROR")]
                /\ pc' = "done"
           ELSE /\ run' = [base EXCEPT !.outcome = "executed",
                                       !.invoked = Ids(enabledAccounts),
                                       !.todo = Ids(enabledAccounts)]
                /\ pc' = "running"
    /\ UNCHANGED <<now, hostTz, config, accounts, execState, ranLog, notSched>>

\* Scheduler.triggerManualReset (EXECUTE_RESET with payload.manual = true),
\* up to the start of the account runs.  With no enabled account it throws,
\* and handleMessage answers from its catch block.
TriggerManualReset ==
    /\ pc = "idle"
    /\ LET enabledAccounts == EnabledAccounts(accounts)
           base == [NoRun EXCEPT !.cmd = "triggerManualReset", !.manual = TRUE,
                                 !.resetType = "MANUAL"]
       IN  IF enabledAccounts = <<>>
           THEN /\ run' = [base EXCEPT
                             !.outcome = "error",
                             !.reply = createErrorResponse("MESSAGE_PROCESSING_ERROR")]
                /\ pc' = "done"
           ELSE /\ run' = [base EXCEPT !.outcome = "executed",
                                       !.invoked = Ids(enabledAccounts),
                                       !.todo = Ids(enabledAccounts)]
                /\ pc' = "running"
    /\ UNCHANGED <<now, hostTz, config, accounts, execState, ranLog, notSched>>

\* EXECUTE_RESET without payload.manual: executeReset(accounts[0], false,
\* 'MANUAL'), up to the start of that call.
ExecuteResetCommand ==
    /\ pc = "idle"
    /\ LET base == [NoRun EXCEPT !.cmd = "EXECUTE_RESET", !.manual = FALSE,
                                 !.resetType = "MANUAL"]
       IN  IF Len(accounts) > 0
           THEN /\ run' = [base EXCEPT !.outcome = "executed",
                                       !.invoked = <<accounts[1].id>>,
                                       !.todo = <<accounts[1].id>>]
                /\ pc' = "running"
           ELSE /\ run' = [base EXCEPT
                             !.outcome = "NO_ACCOUNTS",
                             !.reply = createErrorResponse("NO_ACCOUNTS")]
                /\ pc' = "done"
    /\ UNCHANGED <<now, hostTz, config, accounts, execState, ranLog, notSched>>

\* The counts triggerManualReset takes over the settled account runs; a
\* rejected run counts as failed.
CountStatus(results, statuses) ==
    Cardinality({ i \in DOMAIN results : results[i].status \in statuses })

\* allResults.find(r => r.status === 'SKIPPED')?.summary || '操作已跳过'
RECURSIVE FirstSkippedSummary(_, _)
FirstSkippedSummary(results, i) ==
    IF i > Len(results) THEN "SKIPPED"
    ELSE IF results[i].status = "SKIPPED"
    THEN (IF results[i].summary = "" THEN "SKIPPED" ELSE results[i].summary)
    ELSE FirstSkippedSummary(results, i + 1)

\* (success only when every account succeeded)
ManualOutcomeStrict(results) ==
    LET successCount == CountStatus(results, {"SUCCESS"})
    IN  IF successCount = Len(results)
        THEN [success |-> TRUE, message |-> "ALL_SUCCESS"]
        ELSE [success |-> FALSE, message |-> "ALL_FAILED"]

\* The success and message triggerManualReset returns.
ManualOutcome(results) ==
    LET successCount == CountStatus(results, {"SUCCESS"})
        skippedCount == CountStatus(results, {"SKIPPED"})
        failedCount == Len(results) - successCount - skippedCount
    IN  IF skippedCount > 0 /\ successCount = 0 /\ failedCount = 0
        THEN [success |-> FALSE, message |-> FirstSkippedSummary(results, 1)]
        ELSE IF successCount > 0 /\ failedCount = 0
        THEN [success |-> TRUE, message |-> "ALL_SUCCESS"]
        ELSE IF successCount > 0
        THEN [success |-> TRUE, message |-> "PARTIAL"]
        ELSE [success |-> FALSE, message |-> "ALL_FAILED"]

\* The response of EXECUTE_RESET once its account runs have settled.
CommandReply(cmd, results) ==
    IF cmd = "triggerManualReset"
    THEN LET o == ManualOutcome(results)
         IN  createSuccessResponse(o.success, o.message)
    ELSE IF results[1].status = "REJECTED"
    THEN createErrorResponse("MESSAGE_PROCESSING_ERROR")
    ELSE createSuccessResponse(results[1].status = "SUCCESS", results[1].summary)

\* (the command marking the day as a scheduled firing does)
FinishCommandMarks ==
    /\ pc = "running"
    /\ run.todo = <<>>
    /\ run.cmd \in {"triggerManualReset", "EXECUTE_RESET"}
    /\ run' = [run EXCEPT !.reply = CommandReply(run.cmd, run.results)]
    /\ execState' = markResetExecuted(execState, TRUE,
                                      getTodayDateString(now, config.timezone))
    /\ pc' = "done"
    /\ UNCHANGED <<now, hostTz, config, accounts, ranLog, notSched>>

\* The account runs of a command have settled: its response is built.
FinishCommand ==
    /\ pc = "running"
    /\ run.todo = <<>>
    /\ run.cmd \in {"triggerManualReset", "EXECUTE_RESET"}
    /\ run' = [run EXCEPT !.reply = CommandReply(run.cmd, run.results)]
    /\ pc' = "done"
    /\ UNCHANGED <<now, hostTz, config, accounts, execState, ranLog, notSched>>

\* The handler has returned.
HandlerReturns ==
    /\ pc = "done"
    /\ pc' = "idle"
    /\ run' = NoRun
    /\ UNCHANGED <<now, hostTz, config, accounts, execState, ranLog, notSched>>

\* The instants at which alarms fire and commands arrive: on each of MaxDays
\* days, the first and the second reset time and four minutes after each,
\* in the host's local time.
MaxDays == 2

MaxAccounts == 2

TzOffsets == {0, 8 * 60}

FirstResetTime == [h |-> 18, m |-> 50]
SecondResetTime == [h |-> 23, m |-> 55]

SchedInstants(tz) ==
    { (T0 \div DAY_MS + d) * DAY_MS + (hm.h * 60 + hm.m + late) * MINUTE_MS
        - tz * MINUTE_MS :
        d \in 0..(MaxDays - 1),
        hm \in {FirstResetTime, SecondResetTime},
        late \in {0, 4} }

SchedIdle ==
    /\ hostTz = 0
    /\ config = [enabled |-> TRUE, firstResetTime |-> FirstResetTime,
                 secondResetTime |-> SecondResetTime, timezone |-> 0]
    /\ accounts = <<>>
    /\ execState = NoExecution
    /\ pc = "idle"
    /\ run = NoRun
    /\ ranLog = [FIRST |-> NoRuns, SECOND |-> NoRuns]

Tick ==
    /\ pc = "idle"
    /\ \E t \in SchedInstants(hostTz) : t > now /\ now' = t
    /\ UNCHANGED <<schedVars, notSched>>

AccountLists ==
    UNION { [1..n -> [id : {0}, enabled : BOOLEAN]] : n \in 0..MaxAccounts }

Init ==
    /\ hostTz = 0
    /\ now = (T0 \div DAY_MS) * DAY_MS
                + (FirstResetTime.h * 60 + FirstResetTime.m) * MINUTE_MS
                - hostTz * MINUTE_MS
    /\ config \in [enabled : {TRUE}, firstResetTime : {FirstResetTime},
                   secondResetTime : {SecondResetTime}, timezone : TzOffsets]
    /\ \E l \in AccountLists :
          accounts = [i \in DOMAIN l |-> [id |-> i, enabled |-> l[i].enabled]]
    /\ execState = NoExecution
    /\ pc = "idle"
    /\ run = NoRun
    /\ ranLog = [FIRST |-> NoRuns, SECOND |-> NoRuns]
    /\ tokens = BUCKET_CAPACITY * TokenScale
    /\ lastRefill = now
    /\ bucketOp = NoBucketOp
    /\ fin = [sub |-> [id |-> 0], manual |-> FALSE, resetType |-> "FIRST"]
    /\ fout = "pending"
    /\ phase = "idle"
    /\ req = [manual |-> FALSE, resetType |-> "FIRST"]
    /\ fetched = 0
    /\ monthlySubscriptions = <<>>
    /\ result = NewResult
    /\ resetResults = <<>>
    /\ resetCalls = <<>>
    /\ ClientIdle
    /\ AlarmsIdle
    /\ StatusIdle

Next ==
    \/ AlarmFires(TRUE)
    \/ AlarmFires(FALSE)
    \/ AccountRuns
    \/ FinishScheduledReset
    \/ TriggerManualReset
    \/ ExecuteResetCommand
    \/ FinishCommand
    \/ HandlerReturns
    \/ Tick

Spec == Init /\ [][Next]_vars

-----------------------------------------------------------------------------
(* The callback on its own, over every subscription and call shape, at     *)
(* instants around the end of the cooldown.                                *)

FilterDeltas ==
    { 0 - 1000, 0, 4 * HOUR_MS + 59 * MINUTE_MS, cooldownPeriod - 1,
      cooldownPeriod, cooldownPeriod + 1000, 6 * HOUR_MS }

FilterIdle == [sub |-> [id |-> 0], manual |-> FALSE, resetType |-> "FIRST"]

FilterInputs ==
    { [sub |-> WithId(a, 1), manual |-> c.manual, resetType |-> c.resetType] :
        a \in SubAttrs({0, T0}), c \in CallShapes }

FilterApply ==
    /\ fout = "pending"
    /\ fout' = Classify(fin.sub, fin.manual, fin.resetType, now)
    /\ UNCHANGED <<now, fin, notFilter>>

FilterInit ==
    /\ fin \in FilterInputs
    /\ now \in { T0 + d : d \in FilterDeltas }
    /\ fout = "pending"
    /\ tokens = BUCKET_CAPACITY * TokenScale
    /\ lastRefill = now
    /\ bucketOp = NoBucketOp
    /\ ResetIdle
    /\ ClientIdle
    /\ AlarmsIdle
    /\ StatusIdle
    /\ SchedIdle

FilterNext == FilterApply

SpecFilter == FilterInit /\ [][FilterNext]_vars

-----------------------------------------------------------------------------
BucketInit ==
    /\ now = 0
    /\ tokens = BUCKET_CAPACITY * TokenScale
    /\ lastRefill = now
    /\ bucketOp = NoBucketOp
    /\ fin = FilterIdle
    /\ fout = "pending"
    /\ ResetIdle
    /\ ClientIdle
    /\ AlarmsIdle
    /\ StatusIdle
    /\ SchedIdle

BucketNext == Consume \/ GetAvailableTokens \/ BucketTick

SpecBucket == BucketInit /\ [][BucketNext]_vars

-----------------------------------------------------------------------------
ResetInit ==
    /\ now \in ResetInstants
    /\ tokens = BUCKET_CAPACITY * TokenScale
    /\ lastRefill = now
    /\ bucketOp = NoBucketOp
    /\ fin = FilterIdle
    /\ fout = "pending"
    /\ ResetIdle
    /\ ClientIdle
    /\ AlarmsIdle
    /\ StatusIdle
    /\ SchedIdle

ResetNext ==
    \/ StartReset
    \/ ListingFails
    \/ ListingEmpty
    \/ FilterStep
    \/ FilterDone
    \/ ResetSettles
    \/ Aggregate
    \/ ResetReturns

SpecReset == ResetInit /\ [][ResetNext]_vars

-----------------------------------------------------------------------------
(* The time-window gate on its own: firings of both alarms at instants      *)
(* around a configured time of day, for times in the middle of the day and  *)
(* next to midnight.                                                        *)

WindowTimes ==
    { [h |-> 0, m |-> 0], [h |-> 0, m |-> 2], [h |-> 9, m |-> 0],
      [h |-> 23, m |-> 58] }

\* Offsets of the firing instant from the configured time, in milliseconds.
WindowDeltas ==
    { 0 - 4 * MINUTE_MS, 0 - 3 * MINUTE_MS, 0 - MINUTE_MS, 0, 2 * MINUTE_MS,
      3 * MINUTE_MS, 3 * MINUTE_MS + 1, 4 * MINUTE_MS }

WindowInit ==
    /\ hostTz \in TzOffsets
    /\ \E w \in WindowTimes, d \in WindowDeltas :
          /\ config = [enabled |-> TRUE, firstResetTime |-> w,
                       secondResetTime |-> w, timezone |-> hostTz]
          /\ now = (T0 \div DAY_MS) * DAY_MS + (w.h * 60 + w.m) * MINUTE_MS + d
                      - hostTz * MINUTE_MS
    /\ accounts = <<[id |-> 1, enabled |-> TRUE]>>
    /\ execState = NoExecution
    /\ pc = "idle"
    /\ run = NoRun
    /\ ranLog = [FIRST |-> NoRuns, SECOND |-> NoRuns]
    /\ tokens = BUCKET_CAPACITY * TokenScale
    /\ lastRefill = now
    /\ bucketOp = NoBucketOp
    /\ fin = FilterIdle
    /\ fout = "pending"
    /\ ResetIdle
    /\ ClientIdle
    /\ AlarmsIdle
    /\ StatusIdle

WindowNext ==
    \/ AlarmFires(TRUE)
    \/ AlarmFires(FALSE)
    \/ AccountRuns
    \/ FinishScheduledReset
    \/ HandlerReturns

SpecWindow == WindowInit /\ [][WindowNext]_vars

-----------------------------------------------------------------------------
(* Reset calls through the client, one after another, with time passing    *)
(* between them.                                                           *)

ClientInit == BucketInit

ClientNext == RequestStarts \/ FetchSettles \/ CallReturns \/ BucketTick

SpecClient == ClientInit /\ [][ClientNext]_vars

-----------------------------------------------------------------------------
(* Requests issued together on one client: executeReset starts the reset    *)
(* calls of an account at once, and each reaches the rate-limit check of    *)
(* request() in its own turn, with no time passing in between.             *)

MaxFanOut == 3

\* n requests are issued.
FanOut(n) ==
    /\ inflight.pending = 0
    /\ inflight' = [avail |-> RefillTokens(tokens, lastRefill, now),
                    issued |-> n, pending |-> n, admitted |-> 0, denied |-> 0]
    /\ UNCHANGED <<now, api, bucketVars, filterVars, resetVars, schedVars,
                   alarmVars, statusVars>>

\* One of them reaches `if (!this.rateLimiter.consume())`: consume() runs
\* to its end, and the request goes on to the network or throws
\* RATE_LIMIT_EXCEEDED.
RequestConsumes ==
    /\ inflight.pending > 0
    /\ LET avail == RefillTokens(tokens, lastRefill, now)
       IN  /\ lastRefill' = RefillLast(lastRefill, now)
           /\ IF CanConsume(avail)
              THEN /\ tokens' = avail - TokenScale
                   /\ bucketOp' = [op |-> "consume", ret |-> 1, avail |-> avail]
                   /\ inflight' = [inflight EXCEPT !.pending = @ - 1,
                                                   !.admitted = @ + 1]
              ELSE /\ tokens' = avail
                   /\ bucketOp' = [op |-> "consume", ret |-> 0, avail |-> avail]
                   /\ inflight' = [inflight EXCEPT !.pending = @ - 1,
                                                   !.denied = @ + 1]
    /\ UNCHANGED <<now, api, filterVars, resetVars, schedVars, alarmVars,
                   statusVars>>

\* Time passes between two fan-outs.
FanOutTick ==
    /\ inflight.pending = 0
    /\ BucketTick

FanOutInit == BucketInit

FanOutNext ==
    \/ \E n \in 1..MaxFanOut : FanOut(n)
    \/ RequestConsumes
    \/ FanOutTick

SpecFanOut == FanOutInit /\ [][FanOutNext]_vars

-----------------------------------------------------------------------------
(* Manual resets: the EXECUTE_RESET command arriving at any time of day,    *)
(* with any flags of the day stored and the schedule enabled or not.       *)

\* The instants a command arrives at: the first reset time and noon.
ManualInstants ==
    { (T0 \div DAY_MS) * DAY_MS
        + (FirstResetTime.h * 60 + FirstResetTime.m) * MINUTE_MS,
      (T0 \div DAY_MS) * DAY_MS + 12 * HOUR_MS }

\* The execution states stored when it arrives: nothing run yet, or flags
\* of today.
ManualDayStates(today) ==
    { NoExecution }
        \cup [lastExecutionDate : {today}, firstResetToday : {TRUE},
              secondResetToday : BOOLEAN]

ManualInit ==
    /\ hostTz = 0
    /\ now \in ManualInstants
    /\ config \in [enabled : BOOLEAN, firstResetTime : {FirstResetTime},
                   secondResetTime : {SecondResetTime}, timezone : {0}]
    /\ \E l \in AccountLists :
          accounts = [i \in DOMAIN l |-> [id |-> i, enabled |-> l[i].enabled]]
    /\ execState \in ManualDayStates(getTodayDateString(now, config.timezone))
    /\ pc = "idle"
    /\ run = NoRun
    /\ ranLog = [FIRST |-> NoRuns, SECOND |-> NoRuns]
    /\ tokens = BUCKET_CAPACITY * TokenScale
    /\ lastRefill = now
    /\ bucketOp = NoBucketOp
    /\ fin = FilterIdle
    /\ fout = "pending"
    /\ ResetIdle
    /\ ClientIdle
    /\ AlarmsIdle
    /\ StatusIdle

ManualNext ==
    \/ TriggerManualReset
    \/ ExecuteResetCommand
    \/ AccountRuns
    \/ FinishCommand
    \/ HandlerReturns

SpecManual == ManualInit /\ [][ManualNext]_vars

-----------------------------------------------------------------------------
(* Scheduler.initialize and the chrome.alarms it keeps *)

ALARM_NAMES ==
    [FIRST_RESET |-> "88code-first-reset",
     SECOND_RESET |-> "88code-second-reset",
     HEARTBEAT |-> "88code-heartbeat"]

HEARTBEAT_INTERVAL == 5

\* timeStringToTimestamp(time, timezone) at instant t: the next instant at
\* which a clock timezone minutes ahead of UTC shows time.
timeStringToTimestamp(time, timezone, t) ==
    LET local == t + timezone * MINUTE_MS
        target == (local \div DAY_MS) * DAY_MS
                    + (time.h * 60 + time.m) * MINUTE_MS
        next == IF target <= local THEN target + DAY_MS ELSE target
    IN  next - timezone * MINUTE_MS

\* chrome.alarms.create(name, {when, periodInMinutes}): an alarm of the same
\* name is replaced.
create(alarmSet, name, when, periodInMinutes) ==
    { a \in alarmSet : a.name # name }
        \cup { [name |-> name, when |-> when,
                periodInMinutes |-> periodInMinutes] }

clearAllAlarms(alarmSet) == {}

setupAlarms(alarmSet, cfg, t) ==
    LET cleared == clearAllAlarms(alarmSet)
        first == create(cleared, ALARM_NAMES.FIRST_RESET,
                        timeStringToTimestamp(cfg.firstResetTime, cfg.timezone, t),
                        24 * 60)
    IN  create(first, ALARM_NAMES.SECOND_RESET,
               timeStringToTimestamp(cfg.secondResetTime, cfg.timezone, t),
               24 * 60)

\* (the heartbeat left out)
setupHeartbeatSkipped(alarmSet, t) == alarmSet

\* An alarm created without `when` first fires one period from now.
setupHeartbeat(alarmSet, t) ==
    create(alarmSet, ALARM_NAMES.HEARTBEAT, t + HEARTBEAT_INTERVAL * MINUTE_MS,
           HEARTBEAT_INTERVAL)

\* initialize(), on a scheduler [initialized, alarms] with cfg stored.
initialize(sched, cfg, t) ==
    IF sched.initialized THEN sched
    ELSE IF ~cfg.enabled
    THEN [sched EXCEPT !.alarms = clearAllAlarms(@)]
    ELSE [initialized |-> TRUE,
          alarms |-> setupHeartbeat(setupAlarms(sched.alarms, cfg, t), t)]

\* updateSchedule(config), on the alarms that exist.
updateSchedule(alarmSet, cfg, t) ==
    IF cfg.enabled THEN setupAlarms(alarmSet, cfg, t)
    ELSE clearAllAlarms(alarmSet)

LifecycleConfigs ==
    [enabled : BOOLEAN, firstResetTime : {FirstResetTime, [h |-> 0, m |-> 1]},
     secondResetTime : {SecondResetTime}, timezone : TzOffsets]

MaxLifecycleTicks == 2

\* Instants the lifecycle events happen at.
LifecycleInstants ==
    { T0 + k * 7 * HOUR_MS : k \in 0..MaxLifecycleTicks }

\* The onInstalled and onStartup listeners: scheduler.initialize().
Initialize ==
    /\ pc = "idle"
    /\ LET s == initialize([initialized |-> initialized, alarms |-> alarms],
                           config, now)
       IN  /\ initialized' = s.initialized
           /\ alarms' = s.alarms
    /\ UNCHANGED <<now, schedVars, bucketVars, filterVars, resetVars, apiVars, statusVars>>

\* The UPDATE_CONFIG message with a scheduleConfig: the configuration is
\* saved, then scheduler.initialize() is called.
UpdateConfig(cfg) ==
    /\ pc = "idle"
    /\ config' = cfg
    /\ LET s == initialize([initialized |-> initialized, alarms |-> alarms],
                           cfg, now)
       IN  /\ initialized' = s.initialized
           /\ alarms' = s.alarms
    /\ UNCHANGED <<now, hostTz, accounts, execState, pc, run, ranLog,
                   bucketVars, filterVars, resetVars, apiVars, statusVars>>

\* scheduler.updateSchedule(config)
UpdateSchedule(cfg) ==
    /\ pc = "idle"
    /\ config' = cfg
    /\ alarms' = updateSchedule(alarms, cfg, now)
    /\ UNCHANGED <<now, initialized, hostTz, accounts, execState, pc, run,
                   ranLog, bucketVars, filterVars, resetVars, apiVars, statusVars>>

\* The service worker is stopped and started again: the module is evaluated
\* anew, `scheduler` is a new Scheduler, the alarms are the browser's.
WorkerRestarts ==
    /\ pc = "idle"
    /\ initialized' = FALSE
    /\ UNCHANGED <<now, alarms, schedVars, bucketVars, filterVars, resetVars,
                   apiVars, statusVars>>

LifecycleTick ==
    /\ pc = "idle"
    /\ \E t \in LifecycleInstants : t > now /\ now' = t
    /\ UNCHANGED <<schedVars, notSched>>

LifecycleInit ==
    /\ hostTz = 0
    /\ now = T0
    /\ config \in LifecycleConfigs
    /\ accounts = <<>>
    /\ execState = NoExecution
    /\ pc = "idle"
    /\ run = NoRun
    /\ ranLog = [FIRST |-> NoRuns, SECOND |-> NoRuns]
    /\ tokens = BUCKET_CAPACITY * TokenScale
    /\ lastRefill = now
    /\ bucketOp = NoBucketOp
    /\ fin = FilterIdle
    /\ fout = "pending"
    /\ ResetIdle
    /\ ClientIdle
    /\ AlarmsIdle
    /\ StatusIdle

LifecycleNext ==
    \/ Initialize
    \/ \E cfg \in LifecycleConfigs : UpdateConfig(cfg)
    \/ \E cfg \in LifecycleConfigs : UpdateSchedule(cfg)
    \/ WorkerRestarts
    \/ LifecycleTick

SpecLifecycle == LifecycleInit /\ [][LifecycleNext]_vars

-----------------------------------------------------------------------------
(* A scheduled or manual run whose executeReset calls are followed step by  *)
(* step: the listing, the filter, the reset calls settling, the            *)
(* aggregation, and then the scheduler's own join.                         *)

MaxRunSubs == 2

\* The scheduler calls executeReset for the next account of the run.
AccountStarts ==
    /\ pc = "running"
    /\ run.todo # <<>>
    /\ phase = "idle"
    /\ req' = [manual |-> run.manual, resetType |-> run.resetType]
    /\ phase' = "listing"
    /\ UNCHANGED <<now, fetched, monthlySubscriptions, result, resetResults,
                   resetCalls, notReset>>

RunFilterStep == FilterStepFrom(SchedSubAttrs(now), MaxRunSubs)

\* (the account never taken off the list of those still running)
AccountSettlesKeepsTodo ==
    /\ pc = "running"
    /\ run.todo # <<>>
    /\ phase = "done"
    /\ phase' = "idle"
    /\ req' = IdleReq
    /\ fetched' = 0
    /\ monthlySubscriptions' = <<>>
    /\ result' = NewResult
    /\ resetResults' = <<>>
    /\ resetCalls' = <<>>
    /\ UNCHANGED <<now, schedVars, bucketVars, filterVars, apiVars, alarmVars,
                   statusVars>>

\* executeReset has returned its result: the account's promise settles.
AccountSettles ==
    /\ pc = "running"
    /\ run.todo # <<>>
    /\ phase = "done"
    /\ run' = [run EXCEPT !.todo = Tail(@),
                          !.results = Append(@, Kept(Head(run.todo), result)),
                          !.calls = CallsOf(resetCalls)]
    /\ phase' = "idle"
    /\ req' = IdleReq
    /\ fetched' = 0
    /\ monthlySubscriptions' = <<>>
    /\ result' = NewResult
    /\ resetResults' = <<>>
    /\ resetCalls' = <<>>
    /\ UNCHANGED <<now, hostTz, config, accounts, execState, pc, ranLog,
                   bucketVars, filterVars, apiVars, alarmVars, statusVars>>

\* The accounts stored when a run starts: none, one, or two of which the
\* first may be disabled.
RunAccountLists ==
    { <<>>,
      <<[id |-> 1, enabled |-> TRUE]>>,
      <<[id |-> 1, enabled |-> FALSE], [id |-> 2, enabled |-> TRUE]>>,
      <<[id |-> 1, enabled |-> TRUE], [id |-> 2, enabled |-> TRUE]>> }

\* A run starts at the first or at the second reset time.
RunInit ==
    /\ hostTz = 0
    /\ \E hm \in {FirstResetTime, SecondResetTime} :
          now = (T0 \div DAY_MS) * DAY_MS + (hm.h * 60 + hm.m) * MINUTE_MS
    /\ config = [enabled |-> TRUE, firstResetTime |-> FirstResetTime,
                 secondResetTime |-> SecondResetTime, timezone |-> 0]
    /\ accounts \in RunAccountLists
    /\ execState = NoExecution
    /\ pc = "idle"
    /\ run = NoRun
    /\ ranLog = [FIRST |-> NoRuns, SECOND |-> NoRuns]
    /\ tokens = BUCKET_CAPACITY * TokenScale
    /\ lastRefill = now
    /\ bucketOp = NoBucketOp
    /\ fin = FilterIdle
    /\ fout = "pending"
    /\ ResetIdle
    /\ ClientIdle
    /\ AlarmsIdle
    /\ StatusIdle

\* The steps of a run once it has started.
RunProgress ==
    \/ AccountStarts
    \/ ListingFails
    \/ ListingEmpty
    \/ RunFilterStep
    \/ FilterDone
    \/ ResetSettles
    \/ Aggregate
    \/ AccountSettles
    \/ FinishScheduledReset
    \/ FinishCommand

RunNext ==
    \/ AlarmFires(TRUE)
    \/ AlarmFires(FALSE)
    \/ TriggerManualReset
    \/ RunProgress
    \/ HandlerReturns

SpecRun == RunInit /\ [][RunNext]_vars

\* Every network call returns or is cancelled by its timeout, and the
\* event loop runs every continuation that is ready.
SpecRunFair == SpecRun /\ WF_vars(RunProgress)

-----------------------------------------------------------------------------
(* Alarm callbacks that overlap: handleAlarm is asynchronous, and a firing  *)
(* can begin while an earlier one is waiting for its account runs.  Here pc *)
(* and run hold the position and the locals of every firing.               *)

MaxFirings == 2

Firings == 1..MaxFirings

\* The instants of the firings: the configured time, one minute and four
\* minutes after it.
RaceInstants ==
    { (T0 \div DAY_MS) * DAY_MS
        + (FirstResetTime.h * 60 + FirstResetTime.m + late) * MINUTE_MS :
      late \in {0, 1, 4} }

\* executeScheduledReset of firing f, up to the Promise.allSettled it waits
\* on: the window check, the stored state read and checked, the account
\* runs started.
FiringStarts(f, isFirstReset) ==
    /\ pc[f] = "idle"
    /\ LET cmd == IF isFirstReset THEN "alarmFirst" ELSE "alarmSecond"
           scheduledTime == IF isFirstReset THEN config.firstResetTime
                            ELSE config.secondResetTime
           today == getTodayDateString(now, config.timezone)
           state == DayState(execState, today)
           enabledAccounts == EnabledAccounts(accounts)
           base == [NoRun EXCEPT !.cmd = cmd, !.resetType = ResetTypeOf(isFirstReset)]
           seen == [base EXCEPT !.today = today, !.stored = execState,
                                !.state = state]
       IN  IF ~isWithinTimeWindow(scheduledTime, TIME_WINDOW_MINUTES, now, hostTz)
           THEN /\ run' = [run EXCEPT ![f] = [base EXCEPT !.outcome = "outOfWindow"]]
                /\ pc' = [pc EXCEPT ![f] = "done"]
                /\ UNCHANGED ranLog
           ELSE IF AlreadyExecuted(state, isFirstReset)
           THEN /\ run' = [run EXCEPT ![f] = [seen EXCEPT !.outcome = "alreadyExecuted"]]
                /\ pc' = [pc EXCEPT ![f] = "done"]
                /\ UNCHANGED ranLog
           ELSE IF enabledAccounts = <<>>
           THEN /\ run' = [run EXCEPT ![f] = [seen EXCEPT !.outcome = "noAccounts"]]
                /\ pc' = [pc EXCEPT ![f] = "done"]
                /\ UNCHANGED ranLog
           ELSE /\ run' = [run EXCEPT ![f] =
                             [seen EXCEPT !.outcome = "executed",
                                          !.invoked = Ids(enabledAccounts)]]
                /\ pc' = [pc EXCEPT ![f] = "running"]
                /\ ranLog' = [ranLog EXCEPT ![ResetTypeOf(isFirstReset)] =
                                IF @.day = today
                                THEN [@ EXCEPT !.runs = @ + 1]
                                ELSE [day |-> today, runs |-> 1]]
    /\ UNCHANGED <<now, hostTz, config, accounts, execState, notSched>>

\* The account runs of firing f have all settled: the day is marked.
FiringSettles(f) ==
    /\ pc[f] = "running"
    /\ execState' = markResetExecuted(execState, run[f].cmd = "alarmFirst",
                                      getTodayDateString(now, config.timezone))
    /\ pc' = [pc EXCEPT ![f] = "done"]
    /\ UNCHANGED <<now, hostTz, config, accounts, run, ranLog, notSched>>

\* handleAlarm of firing f has returned.
FiringReturns(f) ==
    /\ pc[f] = "done"
    /\ pc' = [pc EXCEPT ![f] = "idle"]
    /\ run' = [run EXCEPT ![f] = NoRun]
    /\ UNCHANGED <<now, hostTz, config, accounts, execState, ranLog, notSched>>

RaceTick ==
    /\ \E t \in RaceInstants : t > now /\ now' = t
    /\ UNCHANGED <<schedVars, notSched>>

RaceInit ==
    /\ hostTz = 0
    /\ now = (T0 \div DAY_MS) * DAY_MS
                + (FirstResetTime.h * 60 + FirstResetTime.m) * MINUTE_MS
    /\ config = [enabled |-> TRUE, firstResetTime |-> FirstResetTime,
                 secondResetTime |-> FirstResetTime, timezone |-> 0]
    /\ accounts \in { <<>>, <<[id |-> 1, enabled |-> TRUE]>> }
    /\ execState = NoExecution
    /\ pc = [f \in Firings |-> "idle"]
    /\ run = [f \in Firings |-> NoRun]
    /\ ranLog = [FIRST |-> NoRuns, SECOND |-> NoRuns]
    /\ tokens = BUCKET_CAPACITY * TokenScale
    /\ lastRefill = now
    /\ bucketOp = NoBucketOp
    /\ fin = FilterIdle
    /\ fout = "pending"
    /\ ResetIdle
    /\ ClientIdle
    /\ AlarmsIdle
    /\ StatusIdle

RaceNext ==
    \/ \E f \in Firings : FiringStarts(f, TRUE)
    \/ \E f \in Firings : FiringStarts(f, FALSE)
    \/ \E f \in Firings : FiringSettles(f)
    \/ \E f \in Firings : FiringReturns(f)
    \/ RaceTick

SpecRace == RaceInit /\ [][RaceNext]_vars

-----------------------------------------------------------------------------
(* The GET_STATUS command *)

\* The scheduledTime of the alarm of a name, 0 for null.
ScheduledTime(alarmSet, name) ==
    IF \E a \in alarmSet : a.name = name
    THEN (CHOOSE a \in alarmSet : a.name = name).when
    ELSE 0

getNextScheduledTime(alarmSet) ==
    [firstReset |-> ScheduledTime(alarmSet, ALARM_NAMES.FIRST_RESET),
     secondReset |-> ScheduledTime(alarmSet, ALARM_NAMES.SECOND_RESET)]

\* The subscription GET_STATUS reads the remaining count from: of the
\* active MONTHLY ones the first that is not FREE, else the first; <<>> if
\* there is none.
PrimarySubscription(subs) ==
    LET IsMonthly(sub) == sub.planType = "MONTHLY" /\ sub.isActive
        IsPaid(sub) == ~sub.free
        monthlySubscriptionsOf == SelectSeq(subs, IsMonthly)
        paid == SelectSeq(monthlySubscriptionsOf, IsPaid)
    IN  IF paid # <<>> THEN <<paid[1]>>
        ELSE IF monthlySubscriptionsOf # <<>> THEN <<monthlySubscriptionsOf[1]>>
        ELSE <<>>

\* nextScheduledReset and nextResetType as GET_STATUS decides them.
NextReset(nextTimes, resetTimes, t) ==
    LET none == [nextScheduledReset |-> 0, nextResetType |-> "null"]
        first == [nextScheduledReset |-> nextTimes.firstReset,
                  nextResetType |-> "first"]
        second == [nextScheduledReset |-> nextTimes.secondReset,
                   nextResetType |-> "second"]
        firstDiff == nextTimes.firstReset - t
        secondDiff == nextTimes.secondReset - t
    IN  IF nextTimes.firstReset # 0 /\ nextTimes.secondReset # 0
        THEN IF resetTimes >= 2
             THEN IF firstDiff > 0 /\ secondDiff > 0
                  THEN (IF firstDiff < secondDiff THEN first ELSE second)
                  ELSE IF firstDiff > 0 THEN first
                  ELSE IF secondDiff > 0 THEN second
                  ELSE none
             ELSE IF resetTimes >= 1
             THEN (IF secondDiff > 0 THEN second ELSE none)
             ELSE none
        ELSE [nextScheduledReset |->
                 IF nextTimes.firstReset # 0 THEN nextTimes.firstReset
                 ELSE nextTimes.secondReset,
              nextResetType |->
                 IF nextTimes.firstReset # 0 THEN "first" ELSE "second"]

\* The data of the GET_STATUS response, for the alarms and accounts stored
\* and the listing the remote answers accounts[0] with.
GetStatusData(alarmSet, accs, listing, t) ==
    LET nextTimes == getNextScheduledTime(alarmSet)
        primary == IF Len(accs) > 0 /\ listing.ok
                   THEN PrimarySubscription(listing.subs) ELSE <<>>
        resetTimes == IF primary # <<>> THEN primary[1].resetTimes ELSE 2
        cooling == /\ primary # <<>>
                   /\ primary[1].lastCreditReset # 0
                   /\ t - primary[1].lastCreditReset < 5 * HOUR_MS
        next == NextReset(nextTimes, resetTimes, t)
    IN  [asked |-> TRUE, timestamp |-> t, nextTimes |-> nextTimes,
         primary |-> primary # <<>>, chosen |-> primary,
         resetTimes |-> resetTimes,
         nextScheduledReset |-> next.nextScheduledReset,
         nextResetType |-> next.nextResetType,
         isOnCooldown |-> cooling,
         nextAvailableTime |->
            IF cooling THEN primary[1].lastCreditReset + 5 * HOUR_MS ELSE 0]

MaxStatusResets == 3
MaxStatusSubs == 2

\* What the remote can list for GET_STATUS: paid active monthly
\* subscriptions with 0..MaxStatusResets resets left, one of them reset an
\* hour ago, a FREE monthly one and a pay-per-use one.
StatusSubAttrs(t) ==
    [planType : {"MONTHLY"}, free : {FALSE}, isActive : {TRUE},
     resetTimes : 0..MaxStatusResets, lastCreditReset : {0}]
      \cup { [planType |-> "MONTHLY", free |-> FALSE, isActive |-> TRUE,
              resetTimes |-> 1, lastCreditReset |-> t - HOUR_MS],
             [planType |-> "MONTHLY", free |-> TRUE, isActive |-> TRUE,
              resetTimes |-> 2, lastCreditReset |-> 0],
             [planType |-> "PAY_PER_USE", free |-> FALSE, isActive |-> TRUE,
              resetTimes |-> 0, lastCreditReset |-> 0] }

StatusSubLists(t) ==
    UNION { { [i \in 1..n |-> WithId(f[i], i)] : f \in [1..n -> StatusSubAttrs(t)] } :
            n \in 0..MaxStatusSubs }

StatusListings(t) ==
    { [ok |-> FALSE, subs |-> <<>>] }
      \cup { [ok |-> TRUE, subs |-> l] : l \in StatusSubLists(t) }

\* handleMessage GET_STATUS
GetStatus ==
    /\ pc = "idle"
    /\ \E listing \in StatusListings(now) :
          lastStatus' = GetStatusData(alarms, accounts, listing, now)
    /\ UNCHANGED <<now, schedVars, bucketVars, filterVars, resetVars, apiVars,
                   alarmVars>>

\* chrome.alarms: a repeating alarm that has come due is scheduled again,
\* one or more periods on.
Rescheduled(alarmSet, t) ==
    { IF a.when > t THEN a
      ELSE [a EXCEPT !.when =
              @ + ((t - @) \div (a.periodInMinutes * MINUTE_MS) + 1)
                    * (a.periodInMinutes * MINUTE_MS)] : a \in alarmSet }

\* Time passes; the alarms that came due have fired.
StatusTick ==
    /\ pc = "idle"
    /\ \E t \in LifecycleInstants :
          /\ t > now
          /\ now' = t
          /\ alarms' = Rescheduled(alarms, t)
    /\ UNCHANGED <<initialized, schedVars, bucketVars, filterVars, resetVars,
                   apiVars, statusVars>>

\* The scheduler initialized at the first instant on the stored
\* configuration, with no account or one.
StatusInit ==
    /\ hostTz = 0
    /\ now = T0
    /\ config \in LifecycleConfigs
    /\ LET s == initialize([initialized |-> FALSE, alarms |-> {}], config, now)
       IN  initialized = s.initialized /\ alarms = s.alarms
    /\ accounts \in { <<>>, <<[id |-> 1, enabled |-> TRUE]>> }
    /\ execState = NoExecution
    /\ pc = "idle"
    /\ run = NoRun
    /\ ranLog = [FIRST |-> NoRuns, SECOND |-> NoRuns]
    /\ tokens = BUCKET_CAPACITY * TokenScale
    /\ lastRefill = now
    /\ bucketOp = NoBucketOp
    /\ fin = FilterIdle
    /\ fout = "pending"
    /\ ResetIdle
    /\ ClientIdle
    /\ StatusIdle

StatusNext == GetStatus \/ StatusTick

SpecStatus == StatusInit /\ [][StatusNext]_vars

-----------------------------------------------------------------------------
(* Claims about the token bucket (SpecBucket) *)

-----------------------------------------------------------------------------
(* The reset alarms delivered at their scheduled instants: initialize()    *)
(* creates them from the stored configuration, the browser delivers each   *)
(* when it is due, on a host whose local time is hostTz minutes ahead of   *)
(* UTC.                                                                     *)

\* Time passes until the next reset alarm is due; alarms delivered before
\* are scheduled one period on.
DeliveryTick ==
    /\ pc = "idle"
    /\ LET next == Rescheduled(alarms, now)
       IN  \E a \in next :
              /\ a.name # ALARM_NAMES.HEARTBEAT
              /\ a.when <= T0 + MaxDays * DAY_MS
              /\ \A b \in next : b.name # ALARM_NAMES.HEARTBEAT => a.when <= b.when
              /\ now' = a.when
              /\ alarms' = next
    /\ UNCHANGED <<initialized, schedVars, bucketVars, filterVars, resetVars,
                   apiVars, statusVars>>

\* chrome.alarms.onAlarm for a reset alarm that is due now.
AlarmDelivered(isFirstReset) ==
    /\ now = ScheduledTime(alarms, IF isFirstReset THEN ALARM_NAMES.FIRST_RESET
                                   ELSE ALARM_NAMES.SECOND_RESET)
    /\ AlarmFires(isFirstReset)

\* The scheduler initialized at the first instant on an enabled
\* configuration, with one enabled account stored.
DeliveryInit ==
    /\ hostTz \in TzOffsets
    /\ now = T0
    /\ config \in { c \in LifecycleConfigs : c.enabled }
    /\ LET s == initialize([initialized |-> FALSE, alarms |-> {}], config, now)
       IN  initialized = s.initialized /\ alarms = s.alarms
    /\ accounts = <<[id |-> 1, enabled |-> TRUE]>>
    /\ execState = NoExecution
    /\ pc = "idle"
    /\ run = NoRun
    /\ ranLog = [FIRST |-> NoRuns, SECOND |-> NoRuns]
    /\ tokens = BUCKET_CAPACITY * TokenScale
    /\ lastRefill = now
    /\ bucketOp = NoBucketOp
    /\ fin = FilterIdle
    /\ fout = "pending"
    /\ ResetIdle
    /\ ClientIdle
    /\ StatusIdle

DeliveryNext ==
    \/ DeliveryTick
    \/ AlarmDelivered(TRUE)
    \/ AlarmDelivered(FALSE)
    \/ AccountRuns
    \/ FinishScheduledReset
    \/ HandlerReturns

SpecDelivery == DeliveryInit /\ [][DeliveryNext]_vars

\* C2: in every reachable bucket state the token count is within
\* [0, capacity], and the number getAvailableTokens() reports is within
\* [0, capacity].
C2_TokensWithinBounds ==
    /\ tokens >= 0
    /\ tokens <= BUCKET_CAPACITY * TokenScale
    /\ bucketOp.op = "getAvailableTokens" =>
          (bucketOp.ret >= 0 /\ bucketOp.ret <= BUCKET_CAPACITY)

\* C3: consume() returns false and leaves the count alone whenever fewer than
\* one token is available after the refill, and returns true, taking exactly
\* one token, only when at least one is available.
C3_ConsumeNeedsWholeToken ==
    bucketOp.op = "consume" =>
        /\ bucketOp.avail < TokenScale =>
              (bucketOp.ret = 0 /\ tokens = bucketOp.avail)
        /\ bucketOp.ret = 1 =>
              (bucketOp.avail >= TokenScale /\ tokens = bucketOp.avail - TokenScale)

-----------------------------------------------------------------------------
(* Claims about the client (SpecClient) *)

\* C16: a request the rate limiter denies throws RATE_LIMIT_EXCEEDED at
\* once: it is over without a fetch having been issued or a response
\* received, and the token count is what the refill left; and no other
\* request throws that error.
C16_DeniedRequestRaisesAtOnce ==
    api.phase # "idle" =>
        /\ bucketOp.op = "consume"
        /\ bucketOp.ret = 0 =>
              /\ api.phase = "done"
              /\ api.outcome = Raised("RATE_LIMIT_EXCEEDED")
              /\ api.fetches = 0
              /\ api.response = NoResponse
              /\ tokens = bucketOp.avail
        /\ bucketOp.ret = 1 =>
              (api.fetches = 1 /\ api.outcome.code # "RATE_LIMIT_EXCEEDED")

C16_Witness ==
    /\ api.phase = "done"
    /\ bucketOp.ret = 0
    /\ api.outcome.code = "RATE_LIMIT_EXCEEDED"
    /\ api.fetches = 0
    /\ tokens = 0

\* A response with a successful status and no body: status 204,
\* content-length 0, or an empty or blank text.
EmptySuccess(response) ==
    /\ response.kind = "HTTP"
    /\ response.status \in 200..299
    /\ \/ response.status = 204
       \/ response.contentLength = "0"
       \/ response.body \in {"EMPTY", "BLANK"}

\* C17: a reset call answered with a successful status and an empty body
\* gives the subscription outcome SUCCESS, with the quota after equal to the
\* quota before and the message saying that the server sent no detail.
C17_EmptyBodyIsSuccess ==
    (api.phase = "done" /\ EmptySuccess(api.response)) =>
        /\ api.entry.status = "SUCCESS"
        /\ api.entry.usageAfter = "usageBefore"
        /\ api.entry.message = "RESET_NO_DETAIL"

\* C18: a response with a successful status whose body is not empty and
\* not valid JSON makes request return what it returns for an empty body,
\* the default success response, and throw nothing.
C18_NonJsonIsDefaultSuccess ==
    (/\ api.phase = "done"
     /\ api.response.kind = "HTTP"
     /\ api.response.status \in 200..299
     /\ api.response.status # 204
     /\ api.response.contentLength # "0"
     /\ api.response.body = "NOT_JSON") =>
        api.outcome = Returned(DefaultSuccess)

MAX_RETRIES == 3

\* C25: a request whose fetch failed (network error, timeout or an error
\* status) is retried: its failure surfaces only after MAX_RETRIES attempts,
\* or MAX_RETRIES retries of the first one.
C25_FailedRequestIsRetried ==
    (/\ api.phase = "done"
     /\ api.outcome.kind = "raised"
     /\ api.outcome.code \in {"NETWORK_ERROR", "REQUEST_TIMEOUT", "HTTP_ERROR"}) =>
        api.fetches \in {MAX_RETRIES, MAX_RETRIES + 1}

\* C30: a reset call answered with a parsed JSON object gives the
\* subscription outcome SUCCESS iff the object has ok = true or code = 0,
\* whatever success field its data carries; otherwise the outcome is FAILED
\* with the object's msg (the default failure text where it has none).
C30_EnvelopeDecidesOutcome ==
    (/\ api.phase = "done"
     /\ api.response.kind = "HTTP"
     /\ api.response.status = 200
     /\ api.response.contentLength # "0"
     /\ api.response.body = "JSON") =>
        LET json == api.response.json
        IN  /\ api.entry.status = "SUCCESS" <=>
                  (json.ok = "true" \/ json.code = "0")
            /\ api.entry.status # "SUCCESS" =>
                  /\ api.entry.status = "FAILED"
                  /\ api.entry.message =
                        IF json.msg = "text" THEN "ENVELOPE_MSG"
                        ELSE "RESET_FAILED"

\* A reset call answered ok = true with data whose success field is false,
\* counted as a success.
C30_Witness ==
    /\ api.phase = "done"
    /\ api.response.body = "JSON"
    /\ api.response.json.ok = "true"
    /\ api.response.json.nested = "false"
    /\ api.entry.status = "SUCCESS"

-----------------------------------------------------------------------------
(* Claims about the filter callback (SpecFilter) *)

ReachesCooldownCheck(sub) == ~IsFreeTier(sub) /\ ~isPaygoSubscription(sub)

\* C6: for a subscription that passes the plan-name, pay-per-use and cooldown
\* checks, FIRST keeps it only with remaining count >= 2, SECOND and MANUAL
\* only with remaining count >= 1; a remaining count of 0 is excluded for
\* every reset type, and a remaining count of 1 under FIRST is excluded with
\* the count-requirement reason.
C6_CountThresholds ==
    (fout # "pending" /\ ReachesCooldownCheck(fin.sub) /\ fout # "COOLDOWN") =>
        /\ (fin.resetType = "FIRST" /\ fout = "ELIGIBLE") => fin.sub.resetTimes >= 2
        /\ (fin.resetType = "SECOND" /\ fout = "ELIGIBLE") => fin.sub.resetTimes >= 1
        /\ (fin.resetType = "MANUAL" /\ fout = "ELIGIBLE") => fin.sub.resetTimes >= 1
        /\ fin.sub.resetTimes = 0 =>
              fout \in {"COUNT_FIRST", "COUNT_SECOND", "COUNT_MANUAL"}
        /\ (fin.resetType = "FIRST" /\ fin.sub.resetTimes = 1) => fout = "COUNT_FIRST"

C6_Witness ==
    /\ fout = "COUNT_FIRST"
    /\ fin.resetType = "FIRST"
    /\ fin.sub.resetTimes = 1
    /\ fin.sub.planType = "MONTHLY"
    /\ fin.sub.isActive

\* C7: for a request made with manual = true, a subscription with a last
\* reset T that reaches the cooldown check is excluded for cooldown iff
\* now - T < 5 hours (so it is not excluded at exactly T + 5h); a
\* subscription without a last reset is never excluded for cooldown, and the
\* scheduled FIRST/SECOND requests never apply the check.
C7_CooldownBoundary ==
    fout # "pending" =>
        /\ (fin.manual /\ ReachesCooldownCheck(fin.sub)
                /\ fin.sub.lastCreditReset # 0) =>
              (fout = "COOLDOWN" <=> now - fin.sub.lastCreditReset < 5 * HOUR_MS)
        /\ fin.sub.lastCreditReset = 0 => fout # "COOLDOWN"
        /\ fin.resetType \in {"FIRST", "SECOND"} => fout # "COOLDOWN"

C7_Witness ==
    /\ fout = "ELIGIBLE"
    /\ fin.manual
    /\ fin.sub.lastCreditReset = T0
    /\ now = T0 + 5 * HOUR_MS

-----------------------------------------------------------------------------
(* Claims about one executeReset call (SpecReset) *)

\* C1: no reset call is ever issued for a subscription whose plan category
\* is PAY_PER_USE, and none is ever in the set the filter keeps, for any of
\* the reset types and call shapes.
C1_NoPaygoReset ==
    /\ \A i \in DOMAIN resetCalls : resetCalls[i].planType # "PAY_PER_USE"
    /\ \A i \in DOMAIN monthlySubscriptions :
          monthlySubscriptions[i].planType # "PAY_PER_USE"

C1_Witness ==
    /\ phase = "done"
    /\ resetCalls # <<>>
    /\ \E i \in DOMAIN result.subscriptions :
          /\ result.subscriptions[i].plan = "PAY_PER_USE"
          /\ result.subscriptions[i].status = "SKIPPED"

StatusAgreesWithCounts(res) ==
    /\ res.status = "SUCCESS" <=> (res.failedCount = 0 /\ res.successCount > 0)
    /\ res.status = "PARTIAL" <=> (res.successCount > 0 /\ res.failedCount > 0)
    /\ res.status = "FAILED" <=> (res.successCount = 0 /\ res.failedCount > 0)

HasSkip(subscriptions, tags) ==
    \E i \in DOMAIN subscriptions : subscriptions[i].message \in tags

\* C10: when the fetched list is non-empty and the filter keeps nothing, the
\* result is SKIPPED, no reset call is issued, and the summary follows the
\* exclusion reasons present in the order cooldown > protected plan >
\* count exhausted > other, the count reason being any of the FIRST, SECOND
\* and MANUAL count exclusions.
C10_SkipSummaryPriority ==
    (phase = "done" /\ fetched > 0 /\ monthlySubscriptions = <<>>) =>
        /\ result.status = "SKIPPED"
        /\ resetCalls = <<>>
        /\ result.summary =
              IF HasSkip(result.subscriptions, {"COOLDOWN"}) THEN "COOLDOWN"
              ELSE IF HasSkip(result.subscriptions, {"PAYGO"}) THEN "ALL_PAYGO"
              ELSE IF HasSkip(result.subscriptions,
                              {"COUNT_FIRST", "COUNT_SECOND", "COUNT_MANUAL"})
                   THEN "COUNT_EXHAUSTED"
              ELSE "NO_ELIGIBLE"

\* C14: in a call whose reset calls have all settled, a reset call was
\* issued for every kept subscription, and each has its own entry after the
\* skipped ones: SUCCESS when its call was accepted, FAILED when it threw,
\* was refused or rejected, whatever became of the other calls; the counts
\* are the numbers of such entries.
C14_FailureIsolation ==
    (phase = "done" /\ resetCalls # <<>>) =>
        /\ resetCalls = monthlySubscriptions
        /\ Len(resetResults) = Len(monthlySubscriptions)
        /\ Len(result.subscriptions) = result.skippedCount + Len(monthlySubscriptions)
        /\ \A i \in DOMAIN monthlySubscriptions :
              LET entry == result.subscriptions[result.skippedCount + i]
              IN  /\ entry.subscriptionId = monthlySubscriptions[i].id
                  /\ entry.status = IF resetResults[i] = "OK" THEN "SUCCESS"
                                    ELSE "FAILED"
        /\ result.successCount =
              Cardinality({ i \in DOMAIN resetResults : resetResults[i] = "OK" })
        /\ result.failedCount =
              Cardinality({ i \in DOMAIN resetResults : resetResults[i] # "OK" })
        /\ result.status \in {"SUCCESS", "PARTIAL", "FAILED"}

C14_Witness ==
    /\ phase = "done"
    /\ resetResults = <<"THROWN", "OK", "REFUSED">>
    /\ result.status = "PARTIAL"
    /\ result.subscriptions[2].status = "SUCCESS"

-----------------------------------------------------------------------------
(* Claims about the scheduler and the commands (Spec) *)

\* C4: of the firings of one scheduled trigger handled one after another
\* within one calendar day of the configured timezone, at most one runs the
\* account resets: on no day do two firings of a reset type invoke
\* executeReset.
C4_OncePerDay == ranLog.FIRST.runs <= 1 /\ ranLog.SECOND.runs <= 1

C4_Witness ==
    /\ pc = "done"
    /\ run.cmd = "alarmFirst"
    /\ run.outcome = "alreadyExecuted"
    /\ ranLog.FIRST = [day |-> run.today, runs |-> 1]

\* C5: when the date in the configured timezone differs from the stored
\* last-execution date, an in-window firing takes both flags as false: it
\* is not skipped as already executed, and with an enabled account it runs
\* the reset of every enabled account.
C5_NewDayClearsFlags ==
    (/\ pc \in {"running", "done"}
     /\ run.cmd \in {"alarmFirst", "alarmSecond"}
     /\ run.outcome # "outOfWindow"
     /\ run.stored.lastExecutionDate # run.today) =>
        /\ ~run.state.firstResetToday
        /\ ~run.state.secondResetToday
        /\ run.outcome # "alreadyExecuted"
        /\ EnabledAccounts(accounts) # <<>> =>
              (run.outcome = "executed" /\ run.invoked = Ids(EnabledAccounts(accounts)))

C5_Witness ==
    /\ pc = "done"
    /\ run.cmd = "alarmFirst"
    /\ run.stored.firstResetToday
    /\ run.stored.lastExecutionDate # run.today
    /\ run.outcome = "executed"
    /\ run.results # <<>>

\* C8: no request of reset type MANUAL, whichever command issued it, issues
\* a reset call for a subscription whose last reset was less than 5 hours
\* before.
C8_ManualHonoursCooldown ==
    run.resetType = "MANUAL" =>
        \A sub \in run.calls :
            ~(/\ sub.lastCreditReset # 0
              /\ now - sub.lastCreditReset < 5 * HOUR_MS)

\* The account run that settled last was answered a list of exactly one
\* active, paid MONTHLY subscription with both resets left and no last
\* reset, and the remote refused no reset call.
FreshSubscriptionAccepted ==
    /\ run.answered.listing.ok
    /\ Len(run.answered.listing.subs) = 1
    /\ LET sub == run.answered.listing.subs[1]
       IN  /\ sub.planType = "MONTHLY"
           /\ sub.isActive
           /\ ~sub.free
           /\ sub.resetTimes = 2
           /\ sub.lastCreditReset = 0
    /\ \A i \in DOMAIN run.answered.settled : run.answered.settled[i] = "OK"

\* C11: an in-window first firing on a day whose first flag is unset, with
\* one enabled account answered as above, issues exactly one reset call,
\* records the subscription outcome SUCCESS and the account result SUCCESS,
\* and leaves the first flag of the day set.
C11_FirstFiringEndToEnd ==
    (/\ pc = "done"
     /\ run.cmd = "alarmFirst"
     /\ run.outcome = "executed"
     /\ Len(run.invoked) = 1
     /\ FreshSubscriptionAccepted) =>
        LET sub == run.answered.listing.subs[1]
            res == ExecuteReset(run.answered.listing, run.manual, run.resetType,
                                now, <<"OK">>).result
        IN  /\ ~run.state.firstResetToday
            /\ run.calls = {sub}
            /\ Len(run.answered.settled) = 1
            /\ Len(res.subscriptions) = 1
            /\ res.subscriptions[1].status = "SUCCESS"
            /\ run.results = <<Kept(run.invoked[1], res)>>
            /\ run.results[1].status = "SUCCESS"
            /\ execState.lastExecutionDate = run.today
            /\ execState.firstResetToday

C11_Witness ==
    /\ pc = "done"
    /\ run.cmd = "alarmFirst"
    /\ Len(run.invoked) = 1
    /\ FreshSubscriptionAccepted
    /\ Cardinality(run.calls) = 1
    /\ run.results[1].status = "SUCCESS"
    /\ execState.firstResetToday

\* The flag of the stored day state for the reset type of the run.
FlagOf(state, resetType) ==
    IF resetType = "FIRST" THEN state.firstResetToday ELSE state.secondResetToday

\* C12: a scheduled firing that passed the window and dedupe checks with an
\* enabled account leaves, once its account runs have settled, the flag of
\* its reset type set for the day, whatever the account results were, and
\* no later firing of that type runs the resets again that day.
C12_SlotConsumedOnceAttempted ==
    /\ (/\ pc = "done"
        /\ run.cmd \in {"alarmFirst", "alarmSecond"}
        /\ run.outcome = "executed") =>
            /\ execState.lastExecutionDate = run.today
            /\ FlagOf(execState, run.resetType)
    /\ \A type \in {"FIRST", "SECOND"} :
          /\ ranLog[type].runs <= 1
          /\ (pc = "idle" /\ ranLog[type].runs = 1
                /\ ranLog[type].day = getTodayDateString(now, config.timezone)) =>
                  FlagOf(DayState(execState, ranLog[type].day), type)

C12_Witness ==
    /\ pc = "done"
    /\ run.cmd = "alarmSecond"
    /\ run.outcome = "executed"
    /\ Len(run.results) = 2
    /\ run.results[1].status = "REJECTED"
    /\ run.results[2].status = "FAILED"
    /\ execState.secondResetToday

\* C15: an account run whose listing failed is fulfilled, not rejected, with
\* status FAILED and the error as summary, and no reset call is issued for
\* it; the run goes on through every invoked account, and each account's
\* result is the result of what the remote answered that account alone.
C15_ListingFailureContained ==
    (/\ pc \in {"running", "done"}
     /\ run.results # <<>>
     /\ run.results[Len(run.results)].status # "REJECTED") =>
        LET n == Len(run.results)
            last == run.results[n]
            own == ExecuteReset(run.answered.listing, run.manual, run.resetType,
                                now, run.answered.settled)
        IN  /\ Len(run.results) + Len(run.todo) = Len(run.invoked)
            /\ last = Kept(run.invoked[n], own.result)
            /\ run.calls = CallsOf(own.calls)
            /\ ~run.answered.listing.ok =>
                  /\ last.status = "FAILED"
                  /\ last.summary = "ERROR"
                  /\ run.calls = {}

C15_Witness ==
    /\ pc = "done"
    /\ run.cmd = "triggerManualReset"
    /\ Len(run.results) = 2
    /\ run.results[1] = [accountId |-> 1, status |-> "FAILED", summary |-> "ERROR"]
    /\ run.results[2].status = "SUCCESS"
    /\ run.calls # {}

-----------------------------------------------------------------------------
(* Claims about the time-window gate (SpecWindow) *)

\* The distance between the host's local time of day at t and a time of
\* day, the shorter way round the clock.
ClockDistance(scheduledTime, t, tz) ==
    LET local == (t + tz * MINUTE_MS) % DAY_MS
        at == (scheduledTime.h * 60 + scheduledTime.m) * MINUTE_MS
        d == Abs(local - at)
    IN  Min(d, DAY_MS - d)

\* C13: a firing gets past the window check iff its instant is at most 3
\* minutes before or after the configured time of day, times next to
\* midnight included; a firing outside the window invokes executeReset for
\* no account, and the day's flags are set only by firings that ran.
C13_WindowGate ==
    /\ (pc \in {"running", "done"} /\ run.cmd \in {"alarmFirst", "alarmSecond"}) =>
          LET scheduledTime == IF run.cmd = "alarmFirst" THEN config.firstResetTime
                               ELSE config.secondResetTime
          IN  /\ run.outcome # "outOfWindow" <=>
                    ClockDistance(scheduledTime, now, hostTz) <= 3 * MINUTE_MS
              /\ run.outcome = "outOfWindow" =>
                    (run.invoked = <<>> /\ run.results = <<>>)
    /\ \A type \in {"FIRST", "SECOND"} :
          FlagOf(execState, type) => ranLog[type].runs >= 1

-----------------------------------------------------------------------------
(* Claims about Scheduler.initialize (SpecLifecycle) *)

\* The time of day a clock tz minutes ahead of UTC shows at t, in
\* milliseconds after midnight.
ClockAt(t, tz) == (t + tz * MINUTE_MS) % DAY_MS

\* A step in which scheduler.initialize() is called.
InitializeCalled ==
    Initialize \/ \E cfg \in LifecycleConfigs : UpdateConfig(cfg)

\* C19: when initialize() completes on an uninitialized scheduler with an
\* enabled configuration stored, exactly three alarms exist: the first and
\* the second reset alarm, each due at its configured time of day in the
\* configured timezone within the next 24 hours and repeating every 24
\* hours, and the heartbeat alarm repeating every 5 minutes; initialized is
\* true.  A call on an initialized scheduler changes neither the alarms nor
\* the flag.
C19_InitializeSetsThreeTriggers ==
    [][ InitializeCalled =>
          /\ (~initialized /\ config'.enabled) =>
                /\ initialized'
                /\ Cardinality(alarms') = 3
                /\ \E f, s, h \in alarms' :
                      /\ f.name = "88code-first-reset"
                      /\ f.periodInMinutes = 24 * 60
                      /\ f.when > now /\ f.when <= now + DAY_MS
                      /\ ClockAt(f.when, config'.timezone)
                            = (config'.firstResetTime.h * 60
                                 + config'.firstResetTime.m) * MINUTE_MS
                      /\ s.name = "88code-second-reset"
                      /\ s.periodInMinutes = 24 * 60
                      /\ s.when > now /\ s.when <= now + DAY_MS
                      /\ ClockAt(s.when, config'.timezone)
                            = (config'.secondResetTime.h * 60
                                 + config'.secondResetTime.m) * MINUTE_MS
                      /\ h.name = "88code-heartbeat"
                      /\ h.periodInMinutes = 5
          /\ initialized => UNCHANGED <<initialized, alarms>> ]_vars

\* An initialized scheduler with its three alarms, set up by an initialize()
\* later than the first instant, with an enabled configuration stored.
C19_Witness ==
    /\ initialized
    /\ config.enabled
    /\ now > T0
    /\ Cardinality(alarms) = 3
    /\ \E a \in alarms : a.name = "88code-heartbeat" /\ a.when > T0 + DAY_MS \div 4

\* C20: when initialize() is called with a disabled configuration stored, no
\* alarm exists once it has returned, whatever the scheduler's state before
\* the call, an initialized one with alarms included.
C20_DisabledInitializeClearsTriggers ==
    [][ (InitializeCalled /\ ~config'.enabled) => alarms' = {} ]_vars

-----------------------------------------------------------------------------
(* Claims about manual resets (SpecManual) *)

\* How often executeReset was invoked for an account in the run.
Invocations(accountId) ==
    Cardinality({ i \in DOMAIN run.invoked : run.invoked[i] = accountId })

\* C21: triggerManualReset with an enabled account stored invokes
\* executeReset once for every enabled account and for no other, with
\* manual = true and reset type MANUAL, whatever flags the day has, whatever
\* the time of day and whether the schedule is enabled or not; once the run
\* has settled there is one result per enabled account.
C21_ManualBypassesScheduling ==
    (run.cmd = "triggerManualReset" /\ pc \in {"running", "done"}
        /\ EnabledAccounts(accounts) # <<>>) =>
       /\ run.outcome = "executed"
       /\ run.manual /\ run.resetType = "MANUAL"
       /\ \A i \in DOMAIN accounts :
             Invocations(accounts[i].id) = IF accounts[i].enabled THEN 1 ELSE 0
       /\ pc = "done" => Len(run.results) = Len(EnabledAccounts(accounts))

\* A manual run settled at noon, outside both windows, with both flags of
\* the day set and the schedule disabled, for the one enabled account of two.
C21_Witness ==
    /\ run.cmd = "triggerManualReset" /\ pc = "done"
    /\ ~config.enabled
    /\ execState.firstResetToday /\ execState.secondResetToday
    /\ ~isWithinTimeWindow(config.firstResetTime, TIME_WINDOW_MINUTES, now, hostTz)
    /\ ~isWithinTimeWindow(config.secondResetTime, TIME_WINDOW_MINUTES, now, hostTz)
    /\ Len(accounts) = 2 /\ ~accounts[1].enabled /\ accounts[2].enabled
    /\ run.invoked = <<2>>
    /\ Len(run.results) = 1

\* C22: a manual reset with no enabled account stored issues no remote call,
\* and the command answers with an error whose code is NO_ACCOUNTS.
C22_NoEnabledAccountIsNoAccounts ==
    (pc = "done" /\ run.cmd \in {"triggerManualReset", "EXECUTE_RESET"}
        /\ EnabledAccounts(accounts) = <<>>) =>
       /\ run.invoked = <<>>
       /\ ~run.reply.ok
       /\ run.reply.code = "NO_ACCOUNTS"

\* The account results triggerManualReset counts as successes and as
\* failures (every result that is neither a success nor skipped, rejected
\* runs included).
Succeeded(results) == { i \in DOMAIN results : results[i].status = "SUCCESS" }
FailedOnes(results) ==
    { i \in DOMAIN results : results[i].status \notin {"SUCCESS", "SKIPPED"} }

\* C23: the response of a settled triggerManualReset: all accounts skipped,
\* success = false and the message is the summary of the first skipped
\* account; some succeeded and none failed, success = true; some succeeded
\* and some failed, success = true with the partial message; none succeeded
\* and some failed, success = false.
C23_ManualReduction ==
    (pc = "done" /\ run.cmd = "triggerManualReset" /\ run.outcome = "executed") =>
       LET results == run.results
           s == Succeeded(results)
           f == FailedOnes(results)
       IN  /\ run.reply.ok
           /\ (s = {} /\ f = {}) =>
                 (~run.reply.success /\ run.reply.message = results[1].summary)
           /\ (s # {} /\ f = {}) => run.reply.success
           /\ (s # {} /\ f # {}) =>
                 (run.reply.success /\ run.reply.message = "PARTIAL")
           /\ (s = {} /\ f # {}) => ~run.reply.success

\* A manual run of two accounts of which the first failed and the second
\* succeeded, answered as a partial success.
C23_Witness ==
    /\ pc = "done" /\ run.cmd = "triggerManualReset"
    /\ Len(run.results) = 2
    /\ run.results[1].status = "FAILED"
    /\ run.results[2].status = "SUCCESS"
    /\ run.reply.success /\ run.reply.message = "PARTIAL"

-----------------------------------------------------------------------------
(* Claims about GET_STATUS (SpecStatus) *)

\* The windows of a response that lie in the future of it and that a
\* subscription with resetTimes resets left can still use: both with 2 or
\* more, the second only with 1, none with 0.  An absent timestamp is 0.
ReachableWindows(response) ==
    { w \in { [type |-> "first", when |-> response.nextTimes.firstReset],
              [type |-> "second", when |-> response.nextTimes.secondReset] } :
        /\ w.when # 0
        /\ w.when > response.timestamp
        /\ \/ w.type = "first" /\ response.resetTimes >= 2
           \/ w.type = "second" /\ response.resetTimes >= 1 }

\* C24: GET_STATUS, with the remaining count r of the primary subscription:
\* r >= 2 reports the sooner of the future windows with its type, r = 1 the
\* second window only, r = 0 no window, nextScheduledReset and
\* nextResetType both null; an absent timestamp (schedule disabled) is no
\* window.
C24_NextResetPresentation ==
    (lastStatus.asked /\ lastStatus.primary) =>
       LET w == ReachableWindows(lastStatus)
       IN  IF w = {}
           THEN /\ lastStatus.nextScheduledReset = 0
                /\ lastStatus.nextResetType = "null"
           ELSE \E a \in w :
                   /\ \A b \in w : a.when <= b.when
                   /\ lastStatus.nextScheduledReset = a.when
                   /\ lastStatus.nextResetType = a.type

-----------------------------------------------------------------------------
(* Claims about overlapping firings (SpecRace) *)

\* C26: of the firings of one reset type on one calendar day, at most one
\* gets past the check of the day's flag and starts the account runs, also
\* when a firing begins before an earlier one has finished.
C26_FiringsAreSingleFlight ==
    \A f, g \in Firings :
       (/\ f # g
        /\ pc[f] \in {"running", "done"} /\ run[f].outcome = "executed"
        /\ pc[g] \in {"running", "done"} /\ run[g].outcome = "executed") =>
          ~(run[f].resetType = run[g].resetType /\ run[f].today = run[g].today)

-----------------------------------------------------------------------------
(* Claims about the steps of a run (SpecRun, SpecRunFair) *)

\* C27: executeReset has its result only when every reset call it started
\* has settled, and a run is over, with the day's flag marked if it is a
\* scheduled one, only when the executeReset call of every enabled account
\* has settled: while account runs are outstanding the run is not over and
\* the flag is as the run found it.
C27_JoinBeforeReturn ==
    /\ phase = "done" => Len(resetResults) = Len(resetCalls)
    /\ (pc = "done" /\ run.outcome = "executed") =>
          /\ run.todo = <<>>
          /\ phase = "idle"
          /\ Len(run.results) = Len(run.invoked)
    /\ (pc = "running" /\ run.cmd \in {"alarmFirst", "alarmSecond"}) =>
          execState = run.stored

\* A scheduled run of two accounts over, the flag marked, the second
\* account's executeReset having started two reset calls.
C27_Witness ==
    /\ pc = "done" /\ run.cmd = "alarmFirst" /\ run.outcome = "executed"
    /\ Len(run.results) = 2
    /\ Cardinality(run.calls) = 2
    /\ execState.firstResetToday

\* C29: every run that has started comes to its end: the account runs
\* settle, the aggregation is done, and a scheduled run has marked the flag
\* of its reset type for the day.
C29_RunsTerminate ==
    (pc = "running") ~>
        (/\ pc = "done"
         /\ run.todo = <<>>
         /\ Len(run.results) = Len(run.invoked)
         /\ run.cmd \in {"alarmFirst", "alarmSecond"} =>
               (execState.lastExecutionDate = run.today
                  /\ FlagOf(execState, run.resetType)))

\* A scheduled run of two accounts, both with reset calls settled, at its
\* end with the second flag marked.
C29_Witness ==
    /\ pc = "done" /\ run.cmd = "alarmSecond" /\ run.outcome = "executed"
    /\ Len(run.results) = 2
    /\ run.results[1].status # "SKIPPED" /\ run.results[2].status # "SKIPPED"
    /\ execState.secondResetToday

-----------------------------------------------------------------------------
(* Claims about requests issued together (SpecFanOut) *)

\* C28: of N requests issued together with no time passing, at most as
\* many go on to the network as whole tokens were available when they were
\* issued, and every other one fails with the rate-limit error.
C28_FanOutAdmitsWholeTokens ==
    /\ inflight.admitted <=
          (IF inflight.avail > 0 THEN FloorTokens(inflight.avail) ELSE 0)
    /\ inflight.admitted + inflight.denied + inflight.pending = inflight.issued

-----------------------------------------------------------------------------
(* Claims about the execution state and the commands (Spec) *)

\* A step of a manual command: its start, the settling of one of its account
\* runs, its response, its return.
ManualCommands == {"triggerManualReset", "EXECUTE_RESET"}

ManualStep ==
    \/ pc = "idle" /\ run'.cmd \in ManualCommands
    \/ pc # "idle" /\ run.cmd \in ManualCommands

\* C31: no step of a manual reset (triggerManualReset or EXECUTE_RESET
\* without the manual flag) changes the stored execution state, and a
\* scheduled firing is refused as already executed only when a scheduled
\* run of its reset type has gone through on that day.
C31_ManualLeavesDayState ==
    [][ /\ ManualStep => execState' = execState
        /\ (pc = "idle" /\ run'.outcome = "alreadyExecuted") =>
              /\ ranLog[run'.resetType].day = run'.today
              /\ ranLog[run'.resetType].runs >= 1 ]_vars

\* A manual run that reset a subscription has returned its response in the
\* first window of a day on which no flag is stored.
C31_Witness ==
    /\ pc = "done" /\ run.cmd = "triggerManualReset"
    /\ \E i \in DOMAIN run.results : run.results[i].status = "SUCCESS"
    /\ isWithinTimeWindow(config.firstResetTime, TIME_WINDOW_MINUTES, now, hostTz)
    /\ DayState(execState, getTodayDateString(now, config.timezone)).firstResetToday = FALSE
    /\ ranLog.FIRST.runs = 0

-----------------------------------------------------------------------------
(* Claims about the targets of the reset calls (SpecReset) *)

\* What the filter asks of a subscription before a reset call is issued for
\* it under the reset type.
ResetTarget(sub, resetType) ==
    /\ isMonthlySubscription(sub)
    /\ isActiveSubscription(sub)
    /\ ~IsFreeTier(sub)
    /\ sub.resetTimes >= (IF resetType = "FIRST" THEN 2 ELSE 1)

\* C32: every reset call executeReset issues is for a subscription of plan
\* category MONTHLY that is active, is not of a FREE-named tier and has at
\* least one reset left, at least two when the reset type is FIRST.
C32_ResetTargetsAreEligible ==
    \A i \in DOMAIN resetCalls : ResetTarget(resetCalls[i], req.resetType)

\* A FIRST call that issued a reset call while it skipped an inactive
\* MONTHLY subscription with both resets left.
C32_Witness ==
    /\ phase = "reset" /\ req.resetType = "FIRST"
    /\ Len(resetCalls) = 1
    /\ \E i \in DOMAIN result.subscriptions :
          /\ result.subscriptions[i].message = "OTHER"
          /\ result.subscriptions[i].plan = "MONTHLY"

-----------------------------------------------------------------------------
(* Claims about the triggers and the stored configuration (SpecLifecycle) *)

\* The time of day, in the timezone tz, the alarm of a name is due at; -1
\* when there is no such alarm.
TriggerClock(alarmSet, name, tz) ==
    IF \E a \in alarmSet : a.name = name
    THEN ClockAt(ScheduledTime(alarmSet, name), tz)
    ELSE 0 - 1

\* The first and second reset alarms are those of the configuration: due at
\* its times of day when it is enabled, absent when it is disabled.
TriggersMatch(alarmSet, cfg) ==
    IF cfg.enabled
    THEN /\ TriggerClock(alarmSet, ALARM_NAMES.FIRST_RESET, cfg.timezone)
               = (cfg.firstResetTime.h * 60 + cfg.firstResetTime.m) * MINUTE_MS
         /\ TriggerClock(alarmSet, ALARM_NAMES.SECOND_RESET, cfg.timezone)
               = (cfg.secondResetTime.h * 60 + cfg.secondResetTime.m) * MINUTE_MS
    ELSE /\ TriggerClock(alarmSet, ALARM_NAMES.FIRST_RESET, cfg.timezone) = 0 - 1
         /\ TriggerClock(alarmSet, ALARM_NAMES.SECOND_RESET, cfg.timezone) = 0 - 1

\* C33: once an UPDATE_CONFIG command carrying a schedule configuration has
\* completed, the first and second reset alarms match the stored
\* configuration, whatever the scheduler's state before the command, an
\* initialized one included.
C33_UpdateConfigReschedules ==
    [][ (\E cfg \in LifecycleConfigs : UpdateConfig(cfg)) =>
            TriggersMatch(alarms', config') ]_vars

\* The names of the alarms that exist.
TriggerNames(alarmSet) == { a.name : a \in alarmSet }

\* C34: whenever no call is in progress, after any sequence of initialize()
\* and updateSchedule() calls, an initialized scheduler has its first,
\* second and heartbeat alarms; a scheduler whose alarms updateSchedule
\* cleared is back to uninitialized.
C34_InitializedAgreesWithTriggers ==
    initialized =>
        TriggerNames(alarms) = { ALARM_NAMES.FIRST_RESET, ALARM_NAMES.SECOND_RESET,
                                 ALARM_NAMES.HEARTBEAT }

-----------------------------------------------------------------------------
(* Claims about the accounts the commands work for (SpecManual, SpecRun) *)

\* The stored account of an id is enabled.
IsEnabled(accountId) ==
    \E i \in DOMAIN accounts : accounts[i].id = accountId /\ accounts[i].enabled

\* C35: executeReset, whose first step is the listing call with the
\* account's key, is invoked for enabled accounts only, whatever the command:
\* a scheduled firing, triggerManualReset, or EXECUTE_RESET with or without
\* the manual flag.
C35_OnlyEnabledAccountsAreCalled ==
    \A i \in DOMAIN run.invoked : IsEnabled(run.invoked[i])

-----------------------------------------------------------------------------
(* Claims about the outcome list of one executeReset call (SpecReset) *)

\* How many entries of the outcome list are for the subscription of an id.
OutcomesOf(res, id) ==
    Cardinality({ i \in DOMAIN res.subscriptions :
                    res.subscriptions[i].subscriptionId = id })

\* C36: when executeReset returns without having gone through its catch
\* block, every fetched subscription has exactly one entry in the outcome
\* list, SUCCESS, FAILED or SKIPPED, and the three counts add up to the
\* length of the list and to the number of fetched subscriptions.
C36_OutcomeAccountingComplete ==
    (phase = "done" /\ ~result.threw) =>
       /\ \A id \in 1..fetched : OutcomesOf(result, id) = 1
       /\ \A i \in DOMAIN result.subscriptions :
             result.subscriptions[i].status \in {"SUCCESS", "FAILED", "SKIPPED"}
       /\ result.successCount + result.failedCount + result.skippedCount
             = Len(result.subscriptions)
       /\ Len(result.subscriptions) = fetched

-----------------------------------------------------------------------------
(* Claims about the answer of a manual run (SpecRun) *)

\* The account results in which a subscription was reset: executeReset
\* gives the status SUCCESS or PARTIAL exactly when its successCount is
\* positive.
AccountsReset(results) ==
    { i \in DOMAIN results : results[i].status \in {"SUCCESS", "PARTIAL"} }

\* C37: triggerManualReset answers success = true whenever a subscription of
\* some enabled account was reset in the run, the case included in which
\* the result of that account is PARTIAL.
C37_AnyResetIsSuccess ==
    (pc = "done" /\ run.cmd = "triggerManualReset"
        /\ AccountsReset(run.results) # {}) =>
       /\ run.reply.ok
       /\ run.reply.success

-----------------------------------------------------------------------------
(* Claims about GET_STATUS and the eligibility filter (SpecStatus) *)

\* GET_STATUS decided the reset type from the remaining count of a
\* subscription: both alarms exist and the listing held an active MONTHLY
\* subscription.
DecidedByCount(response) ==
    /\ response.asked
    /\ response.chosen # <<>>
    /\ response.nextTimes.firstReset # 0
    /\ response.nextTimes.secondReset # 0

\* C38: when GET_STATUS reports the next reset type first (second) from the
\* remaining count of a subscription, the filter of executeReset keeps that
\* subscription in a scheduled FIRST (SECOND) request at the same instant;
\* the subscription is never one of a FREE-named tier.
C38_StatusAgreesWithFilter ==
    DecidedByCount(lastStatus) =>
       /\ lastStatus.nextResetType = "first" =>
             FilterKeeps(lastStatus.chosen[1], FALSE, "FIRST", lastStatus.timestamp)
       /\ lastStatus.nextResetType = "second" =>
             FilterKeeps(lastStatus.chosen[1], FALSE, "SECOND", lastStatus.timestamp)

-----------------------------------------------------------------------------
(* Claims about alarms delivered on time (SpecDelivery) *)

\* The alarm a firing was delivered for.
AlarmOf(cmd) ==
    IF cmd = "alarmFirst" THEN ALARM_NAMES.FIRST_RESET ELSE ALARM_NAMES.SECOND_RESET

\* C39: a reset alarm created for its time of day in the configured
\* timezone and delivered at the instant it is due gets past the window
\* check, whatever the configured timezone and the host's.
C39_OnTimeDeliveryPassesWindow ==
    (pc \in {"running", "done"} /\ run.cmd \in {"alarmFirst", "alarmSecond"}
        /\ now = ScheduledTime(alarms, AlarmOf(run.cmd))) =>
       run.outcome # "outOfWindow"

=============================================================================
